---- MODULE Spec2Model ----
(***************************************************************************)
(* Scoring engine of RAG_Evaluate_Part: the location evaluator             *)
(* (src/src/evaluator.py), the baseline-vs-RAG comparison                  *)
(* (src/workflows/rerun_with_rag.py) and the per-API score analyzer        *)
(* (src/final_result/smart_api_analyzer.py).                               *)
(*                                                                         *)
(* Numbers.  The code computes with Python floats and returns              *)
(* round(x * 100, 1) or round(x, 1): a number with one decimal.  The model *)
(* computes with exact rationals <<numerator, denominator>> and keeps every*)
(* returned score as an integer count of tenths (100.0 is 1000, 33.3 is    *)
(* 333).  Averages rounded to two decimals are integers in hundredths.     *)
(***************************************************************************)
EXTENDS Integers, Sequences, FiniteSets, TLC

VARIABLES
    pc,                  \* which call has been made in this behaviour
    api_response,        \* Evaluator.evaluate_single_response: argument
    expected_results,    \* Evaluator.evaluate_single_response: argument
    evaluation,          \* Evaluator.evaluate_single_response: returned dict
    predicted_locations, \* RerunWorkflow._calculate_location_metrics: argument
    expected_locations,  \* RerunWorkflow._calculate_location_metrics: argument
    metrics,             \* RerunWorkflow._calculate_location_metrics: returned dict
    baseline_responses,  \* RerunWorkflow._compare_responses: argument
    rag_responses,       \* RerunWorkflow._compare_responses: argument
    cmp_expected,        \* RerunWorkflow._compare_responses: expected_results
    comparison,          \* RerunWorkflow._compare_responses: returned dict
    organ_predicted,     \* RerunWorkflow._calculate_organ_accuracy: argument
    organs_expected,     \* RerunWorkflow._calculate_organ_accuracy: argument
    organ_accuracy,      \* RerunWorkflow._calculate_organ_accuracy: returned dict
    rag_results,         \* RerunWorkflow._build_augmented_prompt: the retrieved units
    rag_quality,         \* _build_augmented_prompt: what _evaluate_rag_quality returned
    primary_refs,        \* _build_augmented_prompt: what _filter_consistent_rag_info returned
    baseline_api_result, \* MainWorkflow.process_report: one API's baseline result
    rag_api_result,      \* MainWorkflow.process_report: the same API's result with RAG
    symptom_expected,    \* MainWorkflow.process_report: expected_organs of the symptom
    baseline_evaluation, \* process_report: the evaluation stored with the baseline
    rag_evaluation,      \* process_report: the evaluation stored with the RAG answer
    symptom_comparison,  \* process_report: symptom_data['comparison'][name]
    api_scores,          \* SmartAPIScoreAnalyzer.api_scores
    stats,               \* SmartAPIScoreAnalyzer.stats
    report_idx,          \* extract_api_scores: the report being read
    api_pos,             \* extract_api_scores: position in self.apis within the symptom
    offered,             \* the arguments of the last _process_api_scores call
    excluded_count,      \* history: per API, the samples the validity gate refused
    folded,              \* history: per API and in the order of the calls, what
                         \* _process_api_scores read of its arguments
    recording,           \* whether this behaviour keeps the history folded
    symptoms,            \* MainWorkflow.process_report: report_data['symptoms']
    symptom_idx,         \* process_report: position of the symptom loop
    report_results,      \* process_report: report_results['symptoms']
    call_args,           \* the argument objects the evaluator calls are given
    thr_arg,             \* per calling thread, which argument object it passes
    thr_pc,              \* per calling thread, its position in the call
    frame,               \* the local variables of each call
    thr_result,          \* per calling thread, what the call returned
    mgr_clients,         \* APIManager.clients: the initialized clients, in order
    mgr_caller,          \* who calls APIManager.process_symptom
    mgr_symptom,         \* process_symptom: the keys symptom_data has
    client_pos,          \* process_symptom: position of the loop over the clients
    api_responses,       \* process_symptom: api_responses, as (name, entry) pairs
    client_calls,        \* history: the generate_response calls, in order
    all_results,         \* SmartRAGEvaluator.run: all_results
    run_lines,           \* RerunWorkflow.run: the queries of the RAG-cache lines
    line_idx,            \* run: position of the loop over the lines
    baseline_keys,       \* run: the keys of baseline_data
    all_comparisons,     \* run: all_comparisons, as (query, line) pairs in key order
    evaluation_summary,  \* what _generate_evaluation_summary returned
    rep_symptoms,        \* evaluate_report_responses: report_results['symptoms']
    rep_idx,             \* evaluate_report_responses: position of the symptom loop
    rep_api,             \* position of the loop over the symptom's api_responses
    rep_summary,         \* report_evaluation['summary']
    total_scores,        \* the list total_scores
    total_precision,     \* the list total_precision
    total_recall,        \* the list total_recall
    symptom_evaluations, \* report_evaluation['symptom_evaluations']
    main_pc,             \* ConcurrentEvaluator.run_concurrent: position of the main thread
    task_pc,             \* per task thread, its position in run_task
    task_results,        \* ConcurrentEvaluator.results
    summary_report       \* the counts generate_summary_report took from results

evalVars == <<pc, api_response, expected_results, evaluation,
              predicted_locations, expected_locations, metrics>>

\* evalVars without pc
evalVars5 == <<api_response, expected_results, evaluation,
               predicted_locations, expected_locations, metrics>>

organVars == <<organ_predicted, organs_expected, organ_accuracy>>

ragVars == <<rag_results, rag_quality, primary_refs>>

summaryVars == <<baseline_api_result, rag_api_result, symptom_expected,
                 baseline_evaluation, rag_evaluation, symptom_comparison>>

\* the state of the RerunWorkflow calls
cmpVars == <<baseline_responses, rag_responses, cmp_expected, comparison,
             organVars, ragVars, summaryVars>>

aggVars == <<api_scores, stats, report_idx, api_pos, offered, excluded_count,
             folded, recording>>

batchVars == <<symptoms, symptom_idx, report_results>>

\* concurrent Evaluator.evaluate_single_response calls
thrVars == <<call_args, thr_arg, thr_pc, frame, thr_result>>

\* APIManager.process_symptom and its caller in SmartRAGEvaluator.run
mgrVars == <<mgr_clients, mgr_caller, mgr_symptom, client_pos, api_responses,
             client_calls, all_results>>

\* the line loop of RerunWorkflow.run and the evaluation summary
runVars == <<run_lines, line_idx, baseline_keys, all_comparisons,
             evaluation_summary>>

\* Evaluator.evaluate_report_responses
repVars == <<rep_symptoms, rep_idx, rep_api, rep_summary, total_scores,
             total_precision, total_recall, symptom_evaluations>>

\* ConcurrentEvaluator: the main thread and the two task threads
taskVars == <<main_pc, task_pc, task_results, summary_report>>

\* the state of the workflows around the scoring engine
extVars == <<batchVars, thrVars, mgrVars, runVars, repVars, taskVars>>

\* what the actions of one group leave alone
outsideBatch == <<evalVars5, cmpVars, aggVars, thrVars, mgrVars, runVars, repVars, taskVars>>

outsideThreads == <<evalVars5, cmpVars, aggVars, batchVars, mgrVars, runVars, repVars, taskVars>>

outsideMgr == <<evalVars5, cmpVars, aggVars, batchVars, thrVars, runVars, repVars, taskVars>>

outsideRun == <<evalVars5, cmpVars, aggVars, batchVars, thrVars, mgrVars, repVars, taskVars>>

outsideRep == <<evalVars5, cmpVars, aggVars, batchVars, thrVars, mgrVars, runVars, taskVars>>

outsideTasks == <<evalVars5, cmpVars, aggVars, batchVars, thrVars, mgrVars, runVars, repVars>>

vars == <<evalVars, cmpVars, aggVars, extVars>>

-----------------------------------------------------------------------------
(* Bounds of the model *)

MaxPred == 6        \* longest predicted location list
MaxUnits == 2       \* most expected units (u-units) of one symptom
MaxSamples == 3     \* most (symptom, API) samples the analyzer is offered
MaxEvidence == 3    \* most retrieved units of one symptom
MaxSummaryPred == 2 \* longest location list of a result process_report compares
MaxSymptoms == 3    \* most symptoms of one report
MaxClients == 3     \* most initialized clients of the API manager
MaxLines == 3       \* most lines of the RAG cache
MaxReportSymptoms == 2  \* most symptoms of a report evaluate_report_responses reads
MaxApiResponses == 2    \* most API responses of one symptom

Locations == {"Aortic Valve", "Left Ventricle (LV)"}

\* Python's None where a list of locations is expected (a JSON null in the
\* ground truth); no list of locations holds this label
None == <<"None">>

SeqsUpTo(S, n) == UNION {[1..k -> S] : k \in 0..n}

ToSet(s) == {s[i] : i \in DOMAIN s}

-----------------------------------------------------------------------------
(* Exact rationals <<n, d>> with d > 0, standing for the code's floats *)

Rat(n, d) == <<n, d>>

RAdd(a, b) == <<a[1] * b[2] + b[1] * a[2], a[2] * b[2]>>

RSub(a, b) == <<a[1] * b[2] - b[1] * a[2], a[2] * b[2]>>

RMul(a, b) == <<a[1] * b[1], a[2] * b[2]>>

RLeq(a, b) == a[1] * b[2] <= b[1] * a[2]

RGt(a, b) == a[1] * b[2] > b[1] * a[2]

REq(a, b) == a[1] * b[2] = b[1] * a[2]

\* a / b for b > 0
RDiv(a, b) == <<a[1] * b[2], a[2] * b[1]>>

\* Python round(): nearest integer, ties to the even one (x >= 0 here).
Round(x) ==
    LET q == x[1] \div x[2]
        r == x[1] % x[2]
    IN  IF 2 * r < x[2] THEN q
        ELSE IF 2 * r > x[2] THEN q + 1
        ELSE IF q % 2 = 0 THEN q ELSE q + 1

\* round(x * 100, 1) as a count of tenths
RoundPercent(x) == Round(RMul(x, Rat(1000, 1)))

\* round(x, 1) as a count of tenths
RoundTenths(x) == Round(RMul(x, Rat(10, 1)))

-----------------------------------------------------------------------------
(* src/src/evaluator.py *)

\* the locations of actual_locations that are "in expected_locations",
\* counted once per list position
CorrectCount(actual, expected) ==
    Cardinality({i \in DOMAIN actual : actual[i] \in expected})

_calculate_precision(actual, expected) ==
    IF Len(actual) = 0 THEN Rat(0, 1)
    ELSE Rat(CorrectCount(actual, expected), Len(actual))

_calculate_recall(actual, expected) ==
    IF Cardinality(expected) = 0 THEN Rat(0, 1)
    ELSE Rat(CorrectCount(actual, expected), Cardinality(expected))

_calculate_overgeneration_penalty(actual, expected) ==
    IF Cardinality(expected) = 0 THEN Rat(0, 1)
    ELSE LET ratio == Rat(Len(actual), Cardinality(expected))
         IN  IF RLeq(ratio, Rat(1, 1)) THEN Rat(1, 1)
             ELSE IF RLeq(ratio, Rat(2, 1))
                  THEN RSub(Rat(1, 1), RMul(RSub(ratio, Rat(1, 1)), Rat(1, 2)))
             ELSE IF RLeq(ratio, Rat(3, 1))
                  THEN RSub(Rat(1, 2), RMul(RSub(ratio, Rat(2, 1)), Rat(1, 2)))
             ELSE Rat(0, 1)

\* a different weighting, precision * 0.2 + recall * 0.2 + penalty * 0.6 (the
\* weights under which the scenario of C5 would score 60)
WeightedSum_PenaltyHeavy(precision, recall, penalty) ==
    RAdd(RAdd(RMul(precision, Rat(1, 5)), RMul(recall, Rat(1, 5))),
         RMul(penalty, Rat(3, 5)))

\* precision * 0.4 + recall * 0.4 + overgeneration_penalty * 0.2
WeightedSum(precision, recall, penalty) ==
    RAdd(RAdd(RMul(precision, Rat(2, 5)), RMul(recall, Rat(2, 5))),
         RMul(penalty, Rat(1, 5)))

\* expected_locations: the units' anatomicalLocations, extended into one
\* list and passed through list(set(...))
ExpectedLocationsOf(units) ==
    UNION {ToSet(units[i].anatomicalLocations) : i \in DOMAIN units}

\* actual_locations: the first of parsed_data / anatomical_locations /
\* parsed_response that is present and truthy.  A field is a record
\* [has, locs]: has says the key is in the dict, locs is the list under it.
\* A parsed dict that is present is truthy (it has keys); a list is truthy
\* when it is not empty.
ActualLocationsOf(resp) ==
    IF resp.parsed_data.has THEN resp.parsed_data.locs
    ELSE IF resp.anatomical_locations.has /\ resp.anatomical_locations.locs # <<>>
         THEN resp.anatomical_locations.locs
    ELSE IF resp.parsed_response.has THEN resp.parsed_response.locs
    ELSE <<>>

\* a degenerate score that grants the full penalty component, as if an
\* answer without over-generation deserved it
\* expected_locations.extend(None) raises TypeError: a successful response
\* is scored against a unit whose anatomicalLocations is null
EvaluateRaises(resp, units) ==
    /\ resp.success
    /\ \E i \in DOMAIN units : units[i].anatomicalLocations = None

ZeroScore_FullPenalty(analysis) ==
    [overall_score |-> 200, precision |-> 0, recall |-> 0,
     overgeneration_penalty |-> 1000, detailed_analysis |-> analysis]

ZeroScore(analysis) ==
    [overall_score |-> 0, precision |-> 0, recall |-> 0,
     overgeneration_penalty |-> 0, detailed_analysis |-> analysis]

evaluate_single_response(resp, units) ==
    IF ~resp.success THEN ZeroScore("API call failed")
    ELSE
      LET expected == ExpectedLocationsOf(units)
          actual == ActualLocationsOf(resp)
      IN  IF expected = {} \/ actual = <<>>
          THEN ZeroScore("missing anatomical locations")
          ELSE
            LET precision == _calculate_precision(actual, expected)
                recall == _calculate_recall(actual, expected)
                penalty == _calculate_overgeneration_penalty(actual, expected)
                overall == RMul(WeightedSum(precision, recall, penalty), Rat(100, 1))
            IN  [overall_score |-> RoundTenths(overall),
                 precision |-> RoundPercent(precision),
                 recall |-> RoundPercent(recall),
                 overgeneration_penalty |-> RoundPercent(penalty),
                 detailed_analysis |-> "analysis"]

-----------------------------------------------------------------------------
(* src/workflows/rerun_with_rag.py: location metrics *)

ZeroMetrics ==
    [precision |-> 0, recall |-> 0, f1_score |-> 0,
     overgeneration_penalty |-> 0, overall_score |-> 0]

_calculate_location_metrics(predicted, expected) ==
    IF expected = {} THEN ZeroMetrics
    ELSE IF predicted = <<>> THEN ZeroMetrics
    ELSE
      LET correct_count == CorrectCount(predicted, expected)
          n == Cardinality(expected)
          precision == Rat(correct_count, Len(predicted))
          recall == Rat(correct_count, n)
          f1_score == IF RGt(RAdd(precision, recall), Rat(0, 1))
                      THEN RDiv(RMul(Rat(2, 1), RMul(precision, recall)),
                                RAdd(precision, recall))
                      ELSE Rat(0, 1)
          over_generation == IF Len(predicted) - n > 0 THEN Len(predicted) - n ELSE 0
          raw_penalty == RSub(Rat(1, 1), Rat(over_generation, IF n > 1 THEN n ELSE 1))
          penalty == IF RGt(raw_penalty, Rat(0, 1)) THEN raw_penalty ELSE Rat(0, 1)
          overall == RMul(WeightedSum(precision, recall, penalty), Rat(100, 1))
      IN  [precision |-> RoundPercent(precision),
           recall |-> RoundPercent(recall),
           f1_score |-> RoundPercent(f1_score),
           overgeneration_penalty |-> RoundPercent(penalty),
           overall_score |-> RoundTenths(overall)]

-----------------------------------------------------------------------------
(* src/workflows/rerun_with_rag.py: comparison of baseline and RAG answers *)

\* Organ names are sequences of characters, so that lower() and the
\* substring test of the code can be computed.
Heart == <<"H", "e", "a", "r", "t">>

heart == <<"h", "e", "a", "r", "t">>

Liver == <<"L", "i", "v", "e", "r">>

Ear == <<"E", "a", "r">>

\* str.lower() on the letters that occur in the organ names
LowerChar(c) ==
    CASE c = "H" -> "h" [] c = "L" -> "l" [] c = "E" -> "e" [] OTHER -> c

Lower(str) == [i \in DOMAIN str |-> LowerChar(str[i])]

\* Python's "needle in hay" on strings
IsSubstring(needle, hay) ==
    \E i \in 0..(Len(hay) - Len(needle)) :
        SubSeq(hay, i + 1, i + Len(needle)) = needle

\* an organ accuracy whose partial match only looks for the predicted name
\* inside the expected one
_calculate_organ_accuracy_OneWay(predicted_organ, expected_organs) ==
    IF expected_organs = {}
    THEN [category |-> "unknown", score |-> 0,
          description |-> "no expected organ"]
    ELSE IF predicted_organ = <<>>
    THEN [category |-> "incorrect", score |-> 0,
          description |-> "no organ identified"]
    ELSE IF predicted_organ \in expected_organs
    THEN [category |-> "exact_match", score |-> 10,
          description |-> "exact match"]
    ELSE IF \E expected_organ \in expected_organs :
              IsSubstring(Lower(predicted_organ), Lower(expected_organ))
    THEN [category |-> "partial_match", score |-> 6,
          description |-> "partial match"]
    ELSE [category |-> "incorrect", score |-> 0,
          description |-> "wrong organ"]

\* organ-accuracy scores 1.0 / 0.6 / 0.0 are kept in tenths
_calculate_organ_accuracy(predicted_organ, expected_organs) ==
    IF expected_organs = {}
    THEN [category |-> "unknown", score |-> 0,
          description |-> "no expected organ"]
    ELSE IF predicted_organ = <<>>
    THEN [category |-> "incorrect", score |-> 0,
          description |-> "no organ identified"]
    ELSE IF predicted_organ \in expected_organs
    THEN [category |-> "exact_match", score |-> 10,
          description |-> "exact match"]
    ELSE IF \E expected_organ \in expected_organs :
              \/ IsSubstring(Lower(predicted_organ), Lower(expected_organ))
              \/ IsSubstring(Lower(expected_organ), Lower(predicted_organ))
    THEN [category |-> "partial_match", score |-> 6,
          description |-> "partial match"]
    ELSE [category |-> "incorrect", score |-> 0,
          description |-> "wrong organ"]

\* the returned text starts with one of three markers:
\* "effective" (RAG helped), "no effect", "negative"
_assess_overall_improvement(baseline_metrics, rag_metrics, baseline_organ, rag_organ) ==
    LET improvements ==
            (IF rag_organ.score > baseline_organ.score
             THEN {"organ"} ELSE {})
            \cup (IF rag_metrics.precision > baseline_metrics.precision
                  THEN {"precision"} ELSE {})
            \cup (IF rag_metrics.recall > baseline_metrics.recall
                  THEN {"recall"} ELSE {})
            \cup (IF rag_metrics.f1_score > baseline_metrics.f1_score
                  THEN {"f1_score"} ELSE {})
            \cup (IF rag_metrics.overall_score > baseline_metrics.overall_score
                  THEN {"overall_score"} ELSE {})
    IN  IF improvements # {} THEN "effective"
        ELSE IF rag_metrics.overall_score = baseline_metrics.overall_score
             THEN "no effect"
        ELSE "negative"

\* expected_locations / expected_organs of _compare_responses: the units'
\* fields collected and de-duplicated; empty organ names are left out
CmpExpectedLocations(units) ==
    UNION {ToSet(units[i].anatomicalLocations) : i \in DOMAIN units}

CmpExpectedOrgans(units) ==
    {units[i].organName : i \in {j \in DOMAIN units : units[j].organName # <<>>}}

\* expected_locations.extend(None) raises TypeError when a unit's
\* anatomicalLocations is null
CompareRaises(units) ==
    \E i \in DOMAIN units : units[i].anatomicalLocations = None

\* a comparison that takes every delta as baseline minus RAG
CompareApi_BaselineMinusRag(baseline_resp, rag_resp, units) ==
    LET expected_locs == CmpExpectedLocations(units)
        expected_organs == CmpExpectedOrgans(units)
        baseline_organ == baseline_resp.organ_name
        rag_organ == rag_resp.organ_name
        baseline_locations == baseline_resp.anatomical_locations
        rag_locations == rag_resp.anatomical_locations
        baseline_organ_accuracy ==
            _calculate_organ_accuracy(baseline_organ, expected_organs)
        rag_organ_accuracy ==
            _calculate_organ_accuracy(rag_organ, expected_organs)
        baseline_metrics ==
            _calculate_location_metrics(baseline_locations, expected_locs)
        rag_metrics == _calculate_location_metrics(rag_locations, expected_locs)
    IN  [baseline_organ |-> baseline_organ,
         rag_organ |-> rag_organ,
         baseline_locations |-> baseline_locations,
         rag_locations |-> rag_locations,
         organ_changed |-> baseline_organ # rag_organ,
         locations_changed |-> baseline_locations # rag_locations,
         baseline_organ_accuracy |-> baseline_organ_accuracy,
         rag_organ_accuracy |-> rag_organ_accuracy,
         organ_accuracy_improved |->
             /\ rag_organ_accuracy.category = "exact_match"
             /\ baseline_organ_accuracy.category # "exact_match",
         baseline_metrics |-> baseline_metrics,
         rag_metrics |-> rag_metrics,
         metrics_improvement |->
             [precision_improvement |->
                  baseline_metrics.precision - rag_metrics.precision,
              recall_improvement |->
                  baseline_metrics.recall - rag_metrics.recall,
              f1_improvement |->
                  baseline_metrics.f1_score - rag_metrics.f1_score,
              overall_improvement |->
                  baseline_metrics.overall_score - rag_metrics.overall_score],
         overall_assessment |->
             _assess_overall_improvement(baseline_metrics, rag_metrics,
                                         baseline_organ_accuracy,
                                         rag_organ_accuracy)]

\* the body of the loop over common_apis
CompareApi(baseline_resp, rag_resp, units) ==
    LET expected_locs == CmpExpectedLocations(units)
        expected_organs == CmpExpectedOrgans(units)
        baseline_organ == baseline_resp.organ_name
        rag_organ == rag_resp.organ_name
        baseline_locations == baseline_resp.anatomical_locations
        rag_locations == rag_resp.anatomical_locations
        baseline_organ_accuracy ==
            _calculate_organ_accuracy(baseline_organ, expected_organs)
        rag_organ_accuracy ==
            _calculate_organ_accuracy(rag_organ, expected_organs)
        baseline_metrics ==
            _calculate_location_metrics(baseline_locations, expected_locs)
        rag_metrics == _calculate_location_metrics(rag_locations, expected_locs)
    IN  [baseline_organ |-> baseline_organ,
         rag_organ |-> rag_organ,
         baseline_locations |-> baseline_locations,
         rag_locations |-> rag_locations,
         organ_changed |-> baseline_organ # rag_organ,
         locations_changed |-> baseline_locations # rag_locations,
         baseline_organ_accuracy |-> baseline_organ_accuracy,
         rag_organ_accuracy |-> rag_organ_accuracy,
         organ_accuracy_improved |->
             /\ rag_organ_accuracy.category = "exact_match"
             /\ baseline_organ_accuracy.category # "exact_match",
         baseline_metrics |-> baseline_metrics,
         rag_metrics |-> rag_metrics,
         metrics_improvement |->
             [precision_improvement |->
                  rag_metrics.precision - baseline_metrics.precision,
              recall_improvement |->
                  rag_metrics.recall - baseline_metrics.recall,
              f1_improvement |->
                  rag_metrics.f1_score - baseline_metrics.f1_score,
              overall_improvement |->
                  rag_metrics.overall_score - baseline_metrics.overall_score],
         overall_assessment |->
             _assess_overall_improvement(baseline_metrics, rag_metrics,
                                         baseline_organ_accuracy,
                                         rag_organ_accuracy)]

\* responses are dicts api name -> response; only the APIs present on both
\* sides are compared
_compare_responses(baseline, rag, units) ==
    [api_name \in (DOMAIN baseline) \cap (DOMAIN rag) |->
        CompareApi(baseline[api_name], rag[api_name], units)]

-----------------------------------------------------------------------------
(* src/comparision_workflow.py: the comparison summary of process_report *)

\* the API name is not a key of the result dict of the run
NoResult == [success |-> FALSE, missing |-> TRUE]

\* .get(name, {}).get('evaluation') of a run that has no entry for the API
NoEvaluation == [overall_score |-> -1]

\* evaluate_single_response is called for a successful response with a
\* truthy parsed_data, and raises for a unit with null locations
StoredEvaluationRaises(response, units) ==
    /\ response # NoResult
    /\ response.success
    /\ response.parsed_data.has
    /\ EvaluateRaises(response, units)

\* api_response_data['evaluation']
StoredEvaluation(response, units) ==
    IF response = NoResult THEN NoEvaluation
    ELSE IF response.success /\ response.parsed_data.has
         THEN evaluate_single_response(response, units)
         ELSE ZeroScore("API call failed or no valid data")

\* comp: every delta is round(rag - baseline, 1); the scores are counts of
\* tenths, so is their difference
ComparisonSummary(base_eval, rag_eval) ==
    IF base_eval # NoEvaluation /\ rag_eval # NoEvaluation
    THEN [overall_delta |->
              rag_eval.overall_score - base_eval.overall_score,
          precision_delta |-> rag_eval.precision - base_eval.precision,
          recall_delta |-> rag_eval.recall - base_eval.recall,
          overgeneration_penalty_delta |->
              rag_eval.overgeneration_penalty
                 - base_eval.overgeneration_penalty]
    ELSE [overall_delta |-> 0, precision_delta |-> 0, recall_delta |-> 0,
          overgeneration_penalty_delta |-> 0]

-----------------------------------------------------------------------------
(* src/workflows/rerun_with_rag.py: the quality score is a Python float.
   A double x with 0 <= x < 4 that is a multiple of 2^-58 is kept exactly as
   three limbs <<a, b, c>>, x = (a * 2^40 + b * 2^20 + c) * 2^-58; every
   operation rounds to 53 significant bits, ties to even, as the hardware
   does. *)

Limb == 2^20

\* the float literals of _evaluate_rag_quality
F0_0 == <<0, 0, 0>>

F0_1 == <<26214, 419430, 419432>>

F0_2 == <<52428, 838860, 838864>>

F0_3 == <<78643, 209715, 209712>>

F0_4 == <<104857, 629145, 629152>>

F0_6 == <<157286, 419430, 419424>>

F1_0 == <<262144, 0, 0>>

\* carries propagated into the higher limbs
Carry(a, b, c) ==
    LET b1 == b + (c \div Limb)
    IN  <<a + (b1 \div Limb), b1 % Limb, c % Limb>>

\* k such that one unit in the last place of x is 2^k * 2^-58, from the
\* top limb of x
UlpExp(a) ==
    IF a < 2^13 THEN 0
    ELSE CHOOSE k \in 1..8 : 2^(12 + k) <= a /\ a < 2^(13 + k)

\* the exact value x rounded to the nearest double
FRound(x) ==
    LET m == 2^UlpExp(x[1])
        r == x[3] % m
        down == x[3] - r
        up == \/ 2 * r > m
              \/ 2 * r = m /\ (down \div m) % 2 = 1
    IN  Carry(x[1], x[2], IF up THEN down + m ELSE down)

\* x + y
FAdd(x, y) == FRound(Carry(x[1] + y[1], x[2] + y[2], x[3] + y[3]))

\* x > y
FGt(x, y) ==
    \/ x[1] > y[1]
    \/ x[1] = y[1] /\ x[2] > y[2]
    \/ x[1] = y[1] /\ x[2] = y[2] /\ x[3] > y[3]

\* x - y for x >= y
FSub(x, y) ==
    LET c == x[3] - y[3]
        b == x[2] - y[2] - (IF c < 0 THEN 1 ELSE 0)
        a == x[1] - y[1] - (IF b < 0 THEN 1 ELSE 0)
    IN  FRound(<<a, IF b < 0 THEN b + Limb ELSE b,
                 IF c < 0 THEN c + Limb ELSE c>>)

\* x / n for an int n > 0: long division, then the quotient is rounded
FDiv(x, n) ==
    LET qa == x[1] \div n
        tb == (x[1] % n) * Limb + x[2]
        qb == tb \div n
        tc == (tb % n) * Limb + x[3]
        qc == tc \div n
        r == tc % n
        m == 2^UlpExp(qa)
        low == qc % m
        down == qc - low
        up == \/ 2 * (low * n + r) > m * n
              \/ 2 * (low * n + r) = m * n /\ (down \div m) % 2 = 1
    IN  Carry(qa, qb, IF up THEN down + m ELSE down)

\* max(0.0, x - y)
FSubClamped(x, y) == IF FGt(x, y) THEN FSub(x, y) ELSE F0_0

\* min(x, 1.0)
FMin1(x) == IF FGt(x, F1_0) THEN F1_0 ELSE x

-----------------------------------------------------------------------------
(* src/workflows/rerun_with_rag.py: quality and consistency of the evidence.
   rag_results is kept as the list of its units in the order the loops
   visit them; a unit is its u_unit: the d_diagnosis text, kept as its
   length and whether it contains one of the medical terms, and o_organ *)

\* "organ and isinstance(organ, dict)": a dict that is present and not empty
HasOrgan(unit) == unit.organ.present

\* quality factors that grant 0.4 for a long text
AddUnitQuality_LongTextWorthMore(q, unit) ==
    LET q1 == IF unit.text.length > 30 THEN FAdd(q, F0_4) ELSE q
        q2 == IF HasOrgan(unit) THEN FAdd(q1, F0_2) ELSE q1
        q3 == IF HasOrgan(unit) /\ unit.organ.anatomicalLocations # <<>>
              THEN FAdd(q2, F0_2) ELSE q2
    IN  IF unit.text.has_term THEN FAdd(q3, F0_1) ELSE q3

\* quality_score after the factors of one unit were added to q
AddUnitQuality(q, unit) ==
    LET q1 == IF unit.text.length > 30 THEN FAdd(q, F0_3) ELSE q
        q2 == IF HasOrgan(unit) THEN FAdd(q1, F0_2) ELSE q1
        q3 == IF HasOrgan(unit) /\ unit.organ.anatomicalLocations # <<>>
              THEN FAdd(q2, F0_2) ELSE q2
    IN  IF unit.text.has_term THEN FAdd(q3, F0_1) ELSE q3

\* quality_score after the loop over the units
RECURSIVE QualityScore(_)
QualityScore(units) ==
    IF units = <<>> THEN F0_0
    ELSE AddUnitQuality(QualityScore(SubSeq(units, 1, Len(units) - 1)),
                        units[Len(units)])

\* avg_quality before the consistency penalty
RawQuality(units) == FDiv(QualityScore(units), Len(units))

\* set(all_organs)
UniqueOrgans(units) ==
    {units[i].organ.organName :
        i \in {j \in DOMAIN units :
                  HasOrgan(units[j]) /\ units[j].organ.organName # <<>>}}

\* set(all_locations)
UniqueLocations(units) ==
    UNION {ToSet(units[i].organ.anatomicalLocations) :
              i \in {j \in DOMAIN units : HasOrgan(units[j])}}

\* a penalty that ignores the disagreement of the organs
ConsistencyPenalty_LocationsOnly(units) ==
    IF Cardinality(UniqueLocations(units)) > 5 THEN FAdd(F0_0, F0_2) ELSE F0_0

ConsistencyPenalty(units) ==
    LET p1 == IF Cardinality(UniqueOrgans(units)) > 1
              THEN FAdd(F0_0, F0_4) ELSE F0_0
    IN  IF Cardinality(UniqueLocations(units)) > 5 THEN FAdd(p1, F0_2) ELSE p1

\* the returned pair; of the description only the quality tier and the
\* conflict mark are kept
_evaluate_rag_quality(units) ==
    IF units = <<>>
    THEN [quality |-> F0_0, tier |-> "none", conflict |-> "none"]
    ELSE
      LET consistency_penalty == ConsistencyPenalty(units)
          avg_quality == FSubClamped(RawQuality(units), consistency_penalty)
      IN  [quality |-> FMin1(avg_quality),
           tier |-> IF FGt(avg_quality, F0_6) THEN "high"
                    ELSE IF FGt(avg_quality, F0_3) THEN "medium" ELSE "low",
           conflict |-> IF ~FGt(consistency_penalty, F0_0) THEN "none"
                        ELSE IF ~FGt(F0_4, consistency_penalty) THEN "severe"
                        ELSE "minor"]

\* all_info: the units that name an organ, as {'text', 'organ'} items
AllInfo(units) ==
    SelectSeq(units, LAMBDA u : HasOrgan(u) /\ u.organ.organName # <<>>)

\* organ_counts[name]
OrganCount(units, name) ==
    Cardinality({i \in DOMAIN AllInfo(units) :
                    AllInfo(units)[i].organ.organName = name})

\* a plurality vote that lets the organ seen last win a tie
MostCommonOrgan_LastSeen(units) ==
    LET info == AllInfo(units)
        best == CHOOSE i \in DOMAIN info :
                   /\ \A j \in DOMAIN info :
                         OrganCount(units, info[j].organ.organName)
                            <= OrganCount(units, info[i].organ.organName)
                   /\ \A j \in (i + 1)..Len(info) :
                         OrganCount(units, info[j].organ.organName)
                            < OrganCount(units, info[i].organ.organName)
    IN  info[best].organ.organName

\* max(organ_counts, key=organ_counts.get): the first key, in insertion
\* order, that has the highest count
MostCommonOrgan(units) ==
    LET info == AllInfo(units)
        best == CHOOSE i \in DOMAIN info :
                   /\ \A j \in DOMAIN info :
                         OrganCount(units, info[j].organ.organName)
                            <= OrganCount(units, info[i].organ.organName)
                   /\ \A j \in 1..(i - 1) :
                         OrganCount(units, info[j].organ.organName)
                            < OrganCount(units, info[i].organ.organName)
    IN  info[best].organ.organName

_filter_consistent_rag_info(units) ==
    LET all_info == AllInfo(units)
    IN  IF all_info = <<>> THEN <<>>
        ELSE IF Cardinality(UniqueOrgans(units)) = 1 THEN all_info
        ELSE SelectSeq(all_info,
                       LAMBDA info : info.organ.organName = MostCommonOrgan(units))

-----------------------------------------------------------------------------
(* src/final_result/smart_api_analyzer.py *)

\* self.apis, in the order the loops visit them (the first two of the five)
apis == <<"moonshot", "deepseek">>

APIs == ToSet(apis)

\* the report ids of the comparison files load_comparison_data found, in
\* the order extract_api_scores visits them
reports == <<"diagnostic_4000", "diagnostic_4001">>

EmptyScores ==
    [baseline_scores |-> <<>>, rag_scores |-> <<>>, improvements |-> <<>>,
     declines |-> <<>>, no_change |-> <<>>, valid_reports |-> <<>>,
     invalid_reports |-> <<>>, empty_results |-> <<>>, zero_scores |-> <<>>]

\* a gate without the third check (the legacy analyzer's, which keeps
\* samples whose two scores are 0)
is_api_call_valid_KeepsZeroScores(api_data) ==
    IF api_data.baseline_organ = <<>> \/ api_data.rag_organ = <<>>
    THEN "empty organ name"
    ELSE IF api_data.baseline_locations = <<>> /\ api_data.rag_locations = <<>>
    THEN "empty location arrays"
    ELSE IF api_data.baseline_organ_accuracy.description = "no organ identified"
            /\ api_data.rag_organ_accuracy.description = "no organ identified"
    THEN "no organ identified at all"
    ELSE "valid"

\* the reason is_api_call_valid returns; "valid" stands for (True, ...)
is_api_call_valid(api_data) ==
    IF api_data.baseline_organ = <<>> \/ api_data.rag_organ = <<>>
    THEN "empty organ name"
    ELSE IF api_data.baseline_locations = <<>> /\ api_data.rag_locations = <<>>
    THEN "empty location arrays"
    ELSE IF api_data.baseline_metrics.overall_score = 0
            /\ api_data.rag_metrics.overall_score = 0
    THEN "all scores are 0"
    ELSE IF api_data.baseline_organ_accuracy.description = "no organ identified"
            /\ api_data.rag_organ_accuracy.description = "no organ identified"
    THEN "no organ identified at all"
    ELSE "valid"

\* api_scores[api] after _process_api_scores(api, symptom_data, _, report_id)
_process_api_scores(sc, symptom_data, report_id) ==
    LET reason == is_api_call_valid(symptom_data)
        baseline_score == symptom_data.baseline_metrics.overall_score
        rag_score == symptom_data.rag_metrics.overall_score
    IN  IF reason # "valid"
        THEN [sc EXCEPT
                !.invalid_reports = Append(@, report_id),
                !.empty_results =
                    IF reason \in {"empty organ name", "empty location arrays"}
                    THEN Append(@, report_id) ELSE @,
                !.zero_scores =
                    IF reason \notin {"empty organ name", "empty location arrays"}
                       /\ reason = "all scores are 0"
                    THEN Append(@, report_id) ELSE @]
        ELSE [sc EXCEPT
                !.baseline_scores = Append(@, baseline_score),
                !.rag_scores = Append(@, rag_score),
                !.valid_reports = Append(@, report_id),
                !.improvements =
                    IF rag_score > baseline_score
                    THEN Append(@, rag_score - baseline_score) ELSE @,
                !.declines =
                    IF rag_score <= baseline_score /\ rag_score < baseline_score
                    THEN Append(@, baseline_score - rag_score) ELSE @,
                !.no_change =
                    IF rag_score = baseline_score THEN Append(@, 0) ELSE @]

\* what _process_api_scores reads of its arguments: the verdict of the
\* gate, the two overall scores and the report id
ReadOf(symptom_data, report_id) ==
    [reason |-> is_api_call_valid(symptom_data),
     baseline_score |-> symptom_data.baseline_metrics.overall_score,
     rag_score |-> symptom_data.rag_metrics.overall_score,
     report_id |-> report_id]

RECURSIVE Sum(_)
Sum(s) == IF s = <<>> THEN 0 ELSE s[1] + Sum(Tail(s))

\* the last score in place of the mean
MeanRounded_LastScore(scores) ==
    IF scores = <<>> THEN 0 ELSE scores[Len(scores)] * 10

\* round(statistics.mean(scores), 2) in hundredths, 0 for an empty list
MeanRounded(scores) ==
    IF scores = <<>> THEN 0 ELSE Round(Rat(Sum(scores) * 10, Len(scores)))

\* round((count / total if total > 0 else 0) * 100, 2) in hundredths
RatioRounded(count, total) ==
    IF total > 0 THEN Round(Rat(count * 10000, total)) ELSE 0

\* a calculate_statistics without the early continue: every API is reported
HasValidData_NeverSkips(sc) == TRUE

\* the APIs calculate_statistics does not skip
HasValidData(sc) == sc.baseline_scores # <<>>

\* the statistics of an API as they would be with the ratios taken over all
\* the samples offered, the refused ones included
StatsEntry_OverAllSamples(sc) ==
    LET total_symptoms == Len(sc.baseline_scores)
        offered_symptoms == Len(sc.baseline_scores) + Len(sc.invalid_reports)
    IN  [s_numbers |-> total_symptoms,
         valid_reports_count |-> Cardinality(ToSet(sc.valid_reports)),
         invalid_reports_count |-> Cardinality(ToSet(sc.invalid_reports)),
         empty_results_count |-> Cardinality(ToSet(sc.empty_results)),
         zero_scores_count |-> Cardinality(ToSet(sc.zero_scores)),
         scores_without_rag |-> MeanRounded(sc.baseline_scores),
         total_scores_without_rag |-> sc.baseline_scores,
         scores_with_rag |-> MeanRounded(sc.rag_scores),
         total_scores_with_rag |-> sc.rag_scores,
         improvement_ratio |-> RatioRounded(Len(sc.improvements), offered_symptoms),
         decline_ratio |-> RatioRounded(Len(sc.declines), offered_symptoms),
         no_change_ratio |-> RatioRounded(Len(sc.no_change), offered_symptoms),
         improvement_count |-> Len(sc.improvements),
         decline_count |-> Len(sc.declines),
         no_change_count |-> Len(sc.no_change)]

\* self.stats[api] as calculate_statistics writes it.  scores_without_rag
\* and scores_with_rag stand for the overall_score of the two nested dicts,
\* total_scores_* for their total_scores, which are the accumulated lists
\* themselves; data_quality repeats the counts and is left out.
StatsEntry(sc) ==
    LET total_symptoms == Len(sc.baseline_scores)
    IN  [s_numbers |-> total_symptoms,
         valid_reports_count |-> Cardinality(ToSet(sc.valid_reports)),
         invalid_reports_count |-> Cardinality(ToSet(sc.invalid_reports)),
         empty_results_count |-> Cardinality(ToSet(sc.empty_results)),
         zero_scores_count |-> Cardinality(ToSet(sc.zero_scores)),
         scores_without_rag |-> MeanRounded(sc.baseline_scores),
         total_scores_without_rag |-> sc.baseline_scores,
         scores_with_rag |-> MeanRounded(sc.rag_scores),
         total_scores_with_rag |-> sc.rag_scores,
         improvement_ratio |-> RatioRounded(Len(sc.improvements), total_symptoms),
         decline_ratio |-> RatioRounded(Len(sc.declines), total_symptoms),
         no_change_ratio |-> RatioRounded(Len(sc.no_change), total_symptoms),
         improvement_count |-> Len(sc.improvements),
         decline_count |-> Len(sc.declines),
         no_change_count |-> Len(sc.no_change)]

calculate_statistics(scores) ==
    [api \in {a \in APIs : HasValidData(scores[a])} |-> StatsEntry(scores[api])]

-----------------------------------------------------------------------------
(* Inputs of the evaluator calls *)

Absent == [has |-> FALSE, locs |-> <<>>]

Present(locs) == [has |-> TRUE, locs |-> locs]

\* a failed call carries an error and no parsed fields
FailedResponse ==
    [success |-> FALSE, parsed_data |-> Absent,
     anatomical_locations |-> Absent, parsed_response |-> Absent]

\* the shapes a successful response arrives in: parsed by the client
\* (parsed_data and anatomical_locations), parsed_data only, the
\* standardized file record (anatomical_locations only), or parsed_response
SuccessfulResponses(locs) ==
    {[success |-> TRUE, parsed_data |-> Present(locs),
      anatomical_locations |-> Present(locs), parsed_response |-> Absent],
     [success |-> TRUE, parsed_data |-> Present(locs),
      anatomical_locations |-> Absent, parsed_response |-> Absent],
     [success |-> TRUE, parsed_data |-> Absent,
      anatomical_locations |-> Present(locs), parsed_response |-> Absent],
     [success |-> TRUE, parsed_data |-> Absent,
      anatomical_locations |-> Absent, parsed_response |-> Present(locs)]}

ApiResponses ==
    {FailedResponse} \cup
    UNION {SuccessfulResponses(locs) : locs \in SeqsUpTo(Locations, MaxPred)}

\* the anatomicalLocations of one expected unit; a list may repeat a label,
\* two units may share labels, and the field may be null
UnitLocationLists ==
    {<<>>, <<"Aortic Valve">>, <<"Left Ventricle (LV)">>,
     <<"Aortic Valve", "Left Ventricle (LV)">>,
     <<"Left Ventricle (LV)", "Aortic Valve">>,
     <<"Aortic Valve", "Aortic Valve">>, None}

ExpectedUnits == [anatomicalLocations : UnitLocationLists]

ExpectedResults == SeqsUpTo(ExpectedUnits, MaxUnits)

-----------------------------------------------------------------------------
(* Inputs of the comparison *)

CmpAPIs == {"moonshot"}

PredictedOrgans == {<<>>, Heart, heart}

CmpLocationLists ==
    {<<>>, <<"Aortic Valve">>, <<"Left Ventricle (LV)">>,
     <<"Aortic Valve", "Left Ventricle (LV)">>,
     <<"Aortic Valve", "Aortic Valve">>,
     <<"Left Ventricle (LV)", "Aortic Valve", "Left Ventricle (LV)">>}

CmpResponses ==
    [organ_name : PredictedOrgans, anatomical_locations : CmpLocationLists]

ResponseDicts == UNION {[D -> CmpResponses] : D \in SUBSET CmpAPIs}

\* the units of the ground truth; the last one has a null
\* anatomicalLocations
CmpExpectedUnits ==
    [organName : {<<>>, Heart, Liver},
     anatomicalLocations : {<<>>, <<"Aortic Valve">>,
                            <<"Aortic Valve", "Left Ventricle (LV)">>}]
    \cup {[organName |-> Heart, anatomicalLocations |-> None]}

CmpExpectedResults == SeqsUpTo(CmpExpectedUnits, MaxUnits)

\* expected_results of the symptoms process_report compares: no unit or
\* one unit
SummaryExpectedResults == {units \in ExpectedResults : Len(units) <= 1}

\* what a run of the API manager holds for one API: no entry, a failed
\* call, or a successful one
SummaryResults ==
    {NoResult, FailedResponse} \cup
    UNION {SuccessfulResponses(locs) :
              locs \in SeqsUpTo(Locations, MaxSummaryPred)}

\* the organ names a response or a ground-truth unit may carry
OrganNames == {<<>>, Heart, heart, Liver, Ear}

\* expected_organs: the distinct non-empty organ names of at most MaxUnits
\* units
ExpectedOrganSets ==
    {S \in SUBSET (OrganNames \ {<<>>}) : Cardinality(S) <= MaxUnits}

-----------------------------------------------------------------------------
(* Inputs of the evidence assessment *)

\* d_diagnosis texts: 30 characters, 31 characters, and 31 characters with
\* the word "diagnosis" among them
EvidenceTexts ==
    {[length |-> 30, has_term |-> FALSE],
     [length |-> 31, has_term |-> FALSE],
     [length |-> 31, has_term |-> TRUE]}

FiveLocations ==
    <<"Aortic Valve", "Left Ventricle (LV)", "Mitral Valve", "Left Atrium",
      "Septum">>

\* o_organ: missing, without a name, with a name and no location, with one
\* location, with five, and another organ with a location of its own
EvidenceOrgans ==
    {[present |-> FALSE, organName |-> <<>>, anatomicalLocations |-> <<>>],
     [present |-> TRUE, organName |-> <<>>,
      anatomicalLocations |-> <<"Tricuspid Valve">>],
     [present |-> TRUE, organName |-> Heart, anatomicalLocations |-> <<>>],
     [present |-> TRUE, organName |-> Heart,
      anatomicalLocations |-> <<"Aortic Valve">>],
     [present |-> TRUE, organName |-> Heart,
      anatomicalLocations |-> FiveLocations],
     [present |-> TRUE, organName |-> Liver,
      anatomicalLocations |-> <<"Hepatic Vein">>]}

EvidenceUnits == [text : EvidenceTexts, organ : EvidenceOrgans]

RagResults == SeqsUpTo(EvidenceUnits, MaxEvidence)

-----------------------------------------------------------------------------
(* Inputs of the analyzer: comparison records as _compare_responses writes
   them to the comparison files *)

AggResponses ==
    [organ_name : {<<>>, Heart},
     anatomical_locations : {<<>>, <<"Aortic Valve">>}]

AggExpectedResults ==
    {<<>>, <<[organName |-> Heart, anatomicalLocations |-> <<"Aortic Valve">>]>>}

AggSamples ==
    {CompareApi(b, r, units) :
        b \in AggResponses, r \in AggResponses, units \in AggExpectedResults}

-----------------------------------------------------------------------------
(* The state before any call *)

NoCall == [overall_score |-> -1]

EvalIdle ==
    /\ api_response = FailedResponse
    /\ expected_results = <<>>
    /\ evaluation = NoCall
    /\ predicted_locations = <<>>
    /\ expected_locations = {}
    /\ metrics = NoCall

NoAccuracy == [category |-> "not called"]

OrganIdle ==
    /\ organ_predicted = <<>>
    /\ organs_expected = {}
    /\ organ_accuracy = NoAccuracy

NoQuality == [quality |-> F0_0, tier |-> "not called", conflict |-> "none"]

RagIdle ==
    /\ rag_results = <<>>
    /\ rag_quality = NoQuality
    /\ primary_refs = <<>>

NoSummary == [overall_delta |-> 0, called |-> FALSE]

SummaryIdle ==
    /\ baseline_api_result = NoResult
    /\ rag_api_result = NoResult
    /\ symptom_expected = <<>>
    /\ baseline_evaluation = NoEvaluation
    /\ rag_evaluation = NoEvaluation
    /\ symptom_comparison = NoSummary

CmpIdle ==
    /\ baseline_responses = <<>>
    /\ rag_responses = <<>>
    /\ cmp_expected = <<>>
    /\ comparison = <<>>
    /\ OrganIdle
    /\ RagIdle
    /\ SummaryIdle

AnalyzerIdle ==
    /\ api_scores = [api \in APIs |-> EmptyScores]
    /\ stats = <<>>
    /\ report_idx = 1
    /\ api_pos = 0
    /\ offered = <<>>
    /\ excluded_count = [api \in APIs |-> 0]
    /\ folded = [api \in APIs |-> <<>>]

AggIdle == AnalyzerIdle /\ recording = FALSE

BatchIdle ==
    /\ symptoms = <<>>
    /\ symptom_idx = 1
    /\ report_results = <<>>

Threads == {1, 2}

NoFrame == [expected |-> {}, actual |-> <<>>]

ThreadsIdle ==
    /\ call_args = <<>>
    /\ thr_arg = [t \in Threads |-> 1]
    /\ thr_pc = [t \in Threads |-> "idle"]
    /\ frame = [t \in Threads |-> NoFrame]
    /\ thr_result = [t \in Threads |-> NoCall]

NoSymptom == [has_symptom_text |-> FALSE, has_expected_results |-> FALSE]

MgrIdle ==
    /\ mgr_clients = <<>>
    /\ mgr_caller = "none"
    /\ mgr_symptom = NoSymptom
    /\ client_pos = 1
    /\ api_responses = <<>>
    /\ client_calls = <<>>
    /\ all_results = <<>>

NoEvaluationSummary == [total_symptoms |-> -1, symptoms |-> <<>>]

RunIdle ==
    /\ run_lines = <<>>
    /\ line_idx = 1
    /\ baseline_keys = {}
    /\ all_comparisons = <<>>
    /\ evaluation_summary = NoEvaluationSummary

\* report_evaluation['summary'] as evaluate_report_responses creates it
NewSummary ==
    [total_api_calls |-> 0, successful_api_calls |-> 0, failed_api_calls |-> 0,
     average_overall_score |-> 0, average_precision |-> 0, average_recall |-> 0]

RepIdle ==
    /\ rep_symptoms = <<>>
    /\ rep_idx = 1
    /\ rep_api = 1
    /\ rep_summary = NewSummary
    /\ total_scores = <<>>
    /\ total_precision = <<>>
    /\ total_recall = <<>>
    /\ symptom_evaluations = <<>>

\* the names of the two tasks run_concurrent defines
TaskNames == {"Task1_Config_Default", "Task2_Config_CN"}

NoSummaryReport == [generated |-> FALSE, success |-> 0, failed |-> 0, error |-> 0]

\* ConcurrentEvaluator.__init__: self.results = {}
TasksIdle ==
    /\ main_pc = "idle"
    /\ task_pc = [t \in TaskNames |-> "created"]
    /\ task_results = [t \in TaskNames |-> "none"]
    /\ summary_report = NoSummaryReport

ExtIdle == BatchIdle /\ ThreadsIdle /\ MgrIdle /\ RunIdle /\ RepIdle /\ TasksIdle

-----------------------------------------------------------------------------
(* The evaluator calls *)

EvaluateSingleResponse ==
    /\ pc = "idle"
    /\ \E resp \in ApiResponses, units \in ExpectedResults :
          /\ api_response' = resp
          /\ expected_results' = units
          /\ IF EvaluateRaises(resp, units)
             THEN evaluation' = evaluation /\ pc' = "raised"
             ELSE /\ evaluation' = evaluate_single_response(resp, units)
                  /\ pc' = "evaluated"
    /\ UNCHANGED <<predicted_locations, expected_locations, metrics, cmpVars, aggVars,
                   extVars>>

CalculateLocationMetrics ==
    /\ pc = "idle"
    /\ \E predicted \in SeqsUpTo(Locations, MaxPred), expected \in SUBSET Locations :
          /\ predicted_locations' = predicted
          /\ expected_locations' = expected
          /\ metrics' = _calculate_location_metrics(predicted, expected)
    /\ pc' = "measured"
    /\ UNCHANGED <<api_response, expected_results, evaluation, cmpVars, aggVars,
                   extVars>>

-----------------------------------------------------------------------------
(* The comparison call *)

EvalInit == pc = "idle" /\ EvalIdle /\ CmpIdle /\ ExtIdle /\ AggIdle

EvalNext == EvaluateSingleResponse \/ CalculateLocationMetrics

SpecEval == EvalInit /\ [][EvalNext]_vars

CmpInit == pc = "idle" /\ EvalIdle /\ CmpIdle /\ ExtIdle /\ AggIdle

CompareResponses ==
    /\ pc = "idle"
    /\ \E baseline \in ResponseDicts, rag \in ResponseDicts,
          units \in CmpExpectedResults :
          /\ baseline_responses' = baseline
          /\ rag_responses' = rag
          /\ cmp_expected' = units
          /\ IF CompareRaises(units)
             THEN comparison' = comparison /\ pc' = "raised"
             ELSE /\ comparison' = _compare_responses(baseline, rag, units)
                  /\ pc' = "compared"
    /\ UNCHANGED <<api_response, expected_results, evaluation,
                   predicted_locations, expected_locations, metrics, aggVars,
                   organVars, ragVars, summaryVars, extVars>>

CalculateOrganAccuracy ==
    /\ pc = "idle"
    /\ \E predicted \in OrganNames, expected \in ExpectedOrganSets :
          /\ organ_predicted' = predicted
          /\ organs_expected' = expected
          /\ organ_accuracy' = _calculate_organ_accuracy(predicted, expected)
    /\ pc' = "classified"
    /\ UNCHANGED <<evalVars5, aggVars, baseline_responses, rag_responses,
                   cmp_expected, comparison, ragVars, summaryVars, extVars>>

\* process_report, for one symptom and one API name of all_api_names: both
\* runs are evaluated, then the summary is made; an exception skips the
\* symptom
ProcessReportSymptom ==
    /\ pc = "idle"
    /\ \E base \in SummaryResults, rag \in SummaryResults,
          units \in SummaryExpectedResults :
          /\ base # NoResult \/ rag # NoResult
          /\ baseline_api_result' = base
          /\ rag_api_result' = rag
          /\ symptom_expected' = units
          /\ IF StoredEvaluationRaises(base, units)
             THEN /\ UNCHANGED <<baseline_evaluation, rag_evaluation,
                                 symptom_comparison>>
                  /\ pc' = "raised"
             ELSE IF StoredEvaluationRaises(rag, units)
             THEN /\ baseline_evaluation' = StoredEvaluation(base, units)
                  /\ UNCHANGED <<rag_evaluation, symptom_comparison>>
                  /\ pc' = "raised"
             ELSE /\ baseline_evaluation' = StoredEvaluation(base, units)
                  /\ rag_evaluation' = StoredEvaluation(rag, units)
                  /\ symptom_comparison' =
                        ComparisonSummary(StoredEvaluation(base, units),
                                          StoredEvaluation(rag, units))
                  /\ pc' = "summarised"
    /\ UNCHANGED <<evalVars5, aggVars, baseline_responses, rag_responses,
                   cmp_expected, comparison, organVars, ragVars, extVars>>

CmpNext == CompareResponses \/ CalculateOrganAccuracy \/ ProcessReportSymptom

SpecCmp == CmpInit /\ [][CmpNext]_vars

-----------------------------------------------------------------------------
(* The evidence assessment at the head of _build_augmented_prompt *)

RagInit == pc = "idle" /\ EvalIdle /\ CmpIdle /\ ExtIdle /\ AggIdle

\* rag_quality, quality_desc = self._evaluate_rag_quality(rag_results);
\* primary_refs = self._filter_consistent_rag_info(rag_results)
BuildAugmentedPrompt ==
    /\ pc = "idle"
    /\ \E units \in RagResults :
          /\ rag_results' = units
          /\ rag_quality' = _evaluate_rag_quality(units)
          /\ primary_refs' = _filter_consistent_rag_info(units)
    /\ pc' = "assessed"
    /\ UNCHANGED <<evalVars5, aggVars, baseline_responses, rag_responses,
                   cmp_expected, comparison, organVars, summaryVars, extVars>>

RagNext == BuildAugmentedPrompt

SpecRag == RagInit /\ [][RagNext]_vars

-----------------------------------------------------------------------------
(* The analyzer run: extract_api_scores, then calculate_statistics *)

SamplesOffered ==
    Sum([i \in 1..Len(apis) |->
            Len(api_scores[apis[i]].valid_reports)
            + Len(api_scores[apis[i]].invalid_reports)])

AggInit == pc = "extract" /\ EvalIdle /\ CmpIdle /\ ExtIdle /\ AggIdle

\* one pass of the innermost loop of extract_api_scores: the next API of
\* self.apis that the current symptom has data for
ProcessApiScores ==
    /\ pc = "extract"
    /\ SamplesOffered < MaxSamples
    /\ \E i \in (api_pos + 1)..Len(apis), symptom_data \in AggSamples :
          /\ api_pos' = i
          /\ api_scores' =
                [api_scores EXCEPT
                    ![apis[i]] = _process_api_scores(@, symptom_data, reports[report_idx])]
          /\ offered' = <<[api |-> apis[i], report_id |-> reports[report_idx],
                           symptom_data |-> symptom_data]>>
          /\ excluded_count' =
                [excluded_count EXCEPT
                    ![apis[i]] = IF is_api_call_valid(symptom_data) # "valid"
                                 THEN @ + 1 ELSE @]
          /\ folded' =
                IF recording
                THEN [folded EXCEPT
                         ![apis[i]] = Append(@, ReadOf(symptom_data,
                                                       reports[report_idx]))]
                ELSE folded
    /\ UNCHANGED <<pc, stats, report_idx, recording, evalVars5, cmpVars,
                   extVars>>

\* the symptom loop moves on to the next symptom of the same report
NextSymptom ==
    /\ pc = "extract"
    /\ api_pos > 0
    /\ api_pos' = 0
    /\ UNCHANGED <<pc, api_scores, stats, report_idx, offered, excluded_count,
                   folded, recording, evalVars5, cmpVars, extVars>>

\* the report loop moves on to the next comparison file
NextReport ==
    /\ pc = "extract"
    /\ report_idx < Len(reports)
    /\ report_idx' = report_idx + 1
    /\ api_pos' = 0
    /\ UNCHANGED <<pc, api_scores, stats, offered, excluded_count, folded,
                   recording, evalVars5, cmpVars, extVars>>

CalculateStatistics ==
    /\ pc = "extract"
    /\ stats' = calculate_statistics(api_scores)
    /\ pc' = "calculated"
    /\ UNCHANGED <<api_scores, report_idx, api_pos, offered, excluded_count,
                   folded, recording, evalVars5, cmpVars, extVars>>

AggNext == ProcessApiScores \/ NextSymptom \/ NextReport \/ CalculateStatistics

SpecAgg == AggInit /\ [][AggNext]_vars

\* the same run with the history of the processed samples kept
FoldInit ==
    pc = "extract" /\ EvalIdle /\ CmpIdle /\ ExtIdle /\ AnalyzerIdle /\ recording = TRUE

SpecFold == FoldInit /\ [][AggNext]_vars

-----------------------------------------------------------------------------
(* src/workflows/main_workflow.py: the symptom loop of process_report *)

\* symptom_text of a symptom item: a string, the key missing, or a JSON null
SymptomTexts == {"text", "missing", "None"}

\* expected_results of a symptom item: no unit, one unit, one unit whose
\* anatomicalLocations is null
BatchExpected ==
    {<<>>, <<[anatomicalLocations |-> <<"Aortic Valve">>]>>,
     <<[anatomicalLocations |-> None]>>}

SymptomItems == [symptom_text : SymptomTexts, expected_results : BatchExpected]

Reports == SeqsUpTo(SymptomItems, MaxSymptoms)

\* what the one client answers: a failed call, an answer the client parsed,
\* an answer without parsed_data
BatchResponses ==
    {FailedResponse,
     [success |-> TRUE, parsed_data |-> Present(<<"Aortic Valve">>),
      anatomical_locations |-> Present(<<"Aortic Valve">>),
      parsed_response |-> Absent],
     [success |-> TRUE, parsed_data |-> Absent,
      anatomical_locations |-> Present(<<"Aortic Valve">>),
      parsed_response |-> Absent]}

\* symptom_text[:50] in the print that precedes the try: slicing None raises
\* TypeError
SliceRaises(item) == item.symptom_text = "None"

\* APIManager.process_symptom reads symptom_data['symptom_text'] before its
\* own try: KeyError when the key is missing
ProcessSymptomRaises(item) == item.symptom_text = "missing"

\* symptom_text of the entry: .get('symptom_text', '')
DiagnosisOf(item) == IF item.symptom_text = "missing" THEN "" ELSE item.symptom_text

\* the entry appended in the except branch
ErrorEntry(item) ==
    [diagnosis |-> DiagnosisOf(item), expected_organs |-> item.expected_results,
     error |-> TRUE, evaluation |-> NoEvaluation]

\* the entry appended at the end of the try
ScoredEntry(item, response) ==
    [diagnosis |-> DiagnosisOf(item), expected_organs |-> item.expected_results,
     error |-> FALSE,
     evaluation |-> StoredEvaluation(response, item.expected_results)]

\* report_results['symptoms'] after the except branch
EntryAfterRaise(results, item) == Append(results, ErrorEntry(item))

BatchInit ==
    /\ pc = "batch"
    /\ EvalIdle /\ CmpIdle /\ AggIdle /\ ThreadsIdle /\ MgrIdle /\ RunIdle /\ RepIdle /\ TasksIdle
    /\ symptoms \in Reports
    /\ symptom_idx = 1
    /\ report_results = <<>>

\* one pass of the loop over symptoms
MainProcessSymptom ==
    /\ pc = "batch"
    /\ symptom_idx <= Len(symptoms)
    /\ LET item == symptoms[symptom_idx]
       IN  IF SliceRaises(item)
           THEN /\ pc' = "aborted"
                /\ UNCHANGED <<symptom_idx, report_results>>
           ELSE /\ pc' = pc
                /\ symptom_idx' = symptom_idx + 1
                /\ IF ProcessSymptomRaises(item)
                   THEN report_results' = EntryAfterRaise(report_results, item)
                   ELSE \E response \in BatchResponses :
                           report_results' =
                              IF StoredEvaluationRaises(response,
                                                        item.expected_results)
                              THEN EntryAfterRaise(report_results, item)
                              ELSE Append(report_results,
                                          ScoredEntry(item, response))
    /\ UNCHANGED <<symptoms, outsideBatch>>

\* return report_results
MainProcessReportReturn ==
    /\ pc = "batch"
    /\ symptom_idx > Len(symptoms)
    /\ pc' = "returned"
    /\ UNCHANGED <<batchVars, outsideBatch>>

BatchNext == MainProcessSymptom \/ MainProcessReportReturn

SpecBatch == BatchInit /\ [][BatchNext]_vars

-----------------------------------------------------------------------------

(* src/src/evaluator.py: Evaluator.evaluate_single_response called from
   several threads on one Evaluator *)

\* the argument objects of the calls: a response and the expected units
ThreadResponses ==
    {FailedResponse} \cup
    UNION {{[success |-> TRUE, parsed_data |-> Present(locs),
             anatomical_locations |-> Present(locs), parsed_response |-> Absent],
            [success |-> TRUE, parsed_data |-> Absent,
             anatomical_locations |-> Absent, parsed_response |-> Present(locs)]} :
           locs \in {<<"Aortic Valve">>, <<"Aortic Valve", "Mitral Valve">>}}

ThreadExpected ==
    {<<>>,
     <<[anatomicalLocations |-> <<"Aortic Valve">>]>>,
     <<[anatomicalLocations |-> <<"Aortic Valve">>],
       [anatomicalLocations |-> <<"Left Ventricle (LV)", "Aortic Valve">>]>>,
     <<[anatomicalLocations |-> None]>>}

ArgObjects == [response : ThreadResponses, units : ThreadExpected]

\* the locals, had they been attributes of the one Evaluator
FrameOf_OnSelf(t) == 1

\* where a call keeps expected_locations and actual_locations: they are
\* local variables, one set per call; Evaluator.__init__ creates no attribute
FrameOf(t) == t

\* lines 62-78 on the locals: the three components, the weighted sum, the
\* rounded record
ScoreLocals(actual, expected) ==
    LET precision == _calculate_precision(actual, expected)
        recall == _calculate_recall(actual, expected)
        penalty == _calculate_overgeneration_penalty(actual, expected)
        overall == RMul(WeightedSum(precision, recall, penalty), Rat(100, 1))
    IN  [overall_score |-> RoundTenths(overall),
         precision |-> RoundPercent(precision),
         recall |-> RoundPercent(recall),
         overgeneration_penalty |-> RoundPercent(penalty),
         detailed_analysis |-> "analysis"]

ArgOf(t) == call_args[thr_arg[t]]

ThreadsInit ==
    /\ pc = "threads"
    /\ EvalIdle /\ CmpIdle /\ AggIdle /\ BatchIdle /\ MgrIdle /\ RunIdle /\ RepIdle /\ TasksIdle
    /\ call_args \in [1..2 -> ArgObjects]
    /\ thr_arg \in [Threads -> 1..2]
    /\ thr_pc = [t \in Threads |-> "called"]
    /\ frame = [t \in Threads |-> NoFrame]
    /\ thr_result = [t \in Threads |-> NoCall]

\* line 22: a failed response returns the zero record at once
CallCheckSuccess(t) ==
    /\ thr_pc[t] = "called"
    /\ IF ArgOf(t).response.success
       THEN /\ thr_pc' = [thr_pc EXCEPT ![t] = "gather"]
            /\ UNCHANGED thr_result
       ELSE /\ thr_pc' = [thr_pc EXCEPT ![t] = "done"]
            /\ thr_result' = [thr_result EXCEPT ![t] = ZeroScore("API call failed")]
    /\ UNCHANGED <<pc, call_args, thr_arg, frame, outsideThreads>>

\* lines 31-37: expected_locations, a fresh list extended from every unit
CallGatherExpected(t) ==
    /\ thr_pc[t] = "gather"
    /\ IF EvaluateRaises(ArgOf(t).response, ArgOf(t).units)
       THEN /\ thr_pc' = [thr_pc EXCEPT ![t] = "raised"]
            /\ UNCHANGED frame
       ELSE /\ thr_pc' = [thr_pc EXCEPT ![t] = "extract"]
            /\ frame' = [frame EXCEPT ![FrameOf(t)].expected =
                                         ExpectedLocationsOf(ArgOf(t).units)]
    /\ UNCHANGED <<pc, call_args, thr_arg, thr_result, outsideThreads>>

\* lines 39-46: actual_locations, the list found in the response
CallExtractActual(t) ==
    /\ thr_pc[t] = "extract"
    /\ thr_pc' = [thr_pc EXCEPT ![t] = "score"]
    /\ frame' = [frame EXCEPT ![FrameOf(t)].actual =
                                 ActualLocationsOf(ArgOf(t).response)]
    /\ UNCHANGED <<pc, call_args, thr_arg, thr_result, outsideThreads>>

\* lines 52-78: the zero record when a list is empty, else the scores
CallScore(t) ==
    /\ thr_pc[t] = "score"
    /\ thr_pc' = [thr_pc EXCEPT ![t] = "done"]
    /\ LET locals == frame[FrameOf(t)]
       IN  thr_result' =
              [thr_result EXCEPT ![t] =
                  IF locals.expected = {} \/ locals.actual = <<>>
                  THEN ZeroScore("missing anatomical locations")
                  ELSE ScoreLocals(locals.actual, locals.expected)]
    /\ UNCHANGED <<pc, call_args, thr_arg, frame, outsideThreads>>

ThreadsNext ==
    \E t \in Threads :
       \/ CallCheckSuccess(t)
       \/ CallGatherExpected(t)
       \/ CallExtractActual(t)
       \/ CallScore(t)

SpecThreads == ThreadsInit /\ [][ThreadsNext]_vars

-----------------------------------------------------------------------------

(* src/src/api_manager.py: APIManager.process_symptom, and its caller
   SmartRAGEvaluator.process_symptom_smart (src/workflows/smart_rag_evaluator.py) *)

\* keys of client_classes that initialize_clients may have put in self.clients
Providers == {"openai", "gemini", "moonshot", "deepseek"}

\* self.clients: a dict, its keys distinct and in insertion order
ClientLists ==
    {s \in SeqsUpTo(Providers, MaxClients) :
        \A i \in DOMAIN s, j \in DOMAIN s : i # j => s[i] # s[j]}

\* what client.generate_response does: returns a parsed answer, an answer
\* with the raw text only, a failure dict, None, or raises
ClientBehaviours == {"parsed", "raw", "failed", "none", "raises"}

\* the symptom record of the workflows, which may lack a key
WorkflowSymptoms == [has_symptom_text : BOOLEAN, has_expected_results : BOOLEAN]

\* the symptom_item process_symptom_smart builds: symptom_id and symptom_text
SmartSymptomItem == [has_symptom_text |-> TRUE, has_expected_results |-> FALSE]

\* the body of the try raises: the client raised, or returned None and
\* response.get raised AttributeError, or symptom_data['expected_results']
\* raised KeyError
TryRaises(behaviour, symptom) ==
    \/ behaviour \in {"raises", "none"}
    \/ ~symptom.has_expected_results

\* an except branch that reports the failure as a success
ExceptEntry_Success(behaviour) ==
    [success |-> TRUE, parsed_by |-> "nobody", error |-> behaviour]

\* the entry of the except branch
ExceptEntry(behaviour) ==
    [success |-> FALSE, parsed_by |-> "nobody", error |-> behaviour]

\* the except branch reads symptom_data['expected_results'] again: KeyError
\* leaves process_symptom
ExceptRaises(symptom) == ~symptom.has_expected_results

\* the response stored at the end of the try; an answer without organ_name
\* is parsed by _extract_and_parse_json, which catches its own exceptions
TryEntry(behaviour) ==
    IF behaviour = "failed"
    THEN [success |-> FALSE, parsed_by |-> "nobody", error |-> "failed"]
    ELSE [success |-> TRUE,
          parsed_by |-> IF behaviour = "raw" THEN "manager" ELSE "client",
          error |-> ""]

\* results['api_responses'] of process_symptom_smart: one entry per entry
\* of api_responses, success kept
SmartResult(responses) ==
    [i \in DOMAIN responses |->
        [client |-> responses[i].client, success |-> responses[i].entry.success]]

MgrInit ==
    /\ pc = "mgr_called"
    /\ EvalIdle /\ CmpIdle /\ AggIdle /\ BatchIdle /\ ThreadsIdle /\ RunIdle /\ RepIdle /\ TasksIdle
    /\ mgr_clients \in ClientLists
    /\ mgr_caller \in {"workflow", "smart"}
    /\ mgr_symptom \in IF mgr_caller = "smart" THEN {SmartSymptomItem}
                       ELSE WorkflowSymptoms
    /\ client_pos = 1
    /\ api_responses = <<>>
    /\ client_calls = <<>>
    /\ all_results = <<>>

\* api_responses = {}; symptom_text = symptom_data['symptom_text']
ProcessSymptomEnter ==
    /\ pc = "mgr_called"
    /\ pc' = IF mgr_symptom.has_symptom_text THEN "mgr_loop" ELSE "mgr_raised"
    /\ UNCHANGED <<mgrVars, outsideMgr>>

\* one pass of the loop over self.clients.items()
ProcessSymptomCallClient ==
    /\ pc = "mgr_loop"
    /\ client_pos <= Len(mgr_clients)
    /\ \E behaviour \in ClientBehaviours :
          /\ client_calls' = Append(client_calls,
                                    [client |-> mgr_clients[client_pos],
                                     behaviour |-> behaviour])
          /\ IF TryRaises(behaviour, mgr_symptom)
             THEN IF ExceptRaises(mgr_symptom)
                  THEN /\ pc' = "mgr_raised"
                       /\ UNCHANGED <<client_pos, api_responses>>
                  ELSE /\ pc' = pc
                       /\ client_pos' = client_pos + 1
                       /\ api_responses' =
                             Append(api_responses,
                                    [client |-> mgr_clients[client_pos],
                                     entry |-> ExceptEntry(behaviour)])
             ELSE /\ pc' = pc
                  /\ client_pos' = client_pos + 1
                  /\ api_responses' =
                        Append(api_responses,
                               [client |-> mgr_clients[client_pos],
                                entry |-> TryEntry(behaviour)])
    /\ UNCHANGED <<mgr_clients, mgr_caller, mgr_symptom, all_results, outsideMgr>>

\* return api_responses
ProcessSymptomReturn ==
    /\ pc = "mgr_loop"
    /\ client_pos > Len(mgr_clients)
    /\ pc' = "mgr_returned"
    /\ UNCHANGED <<mgrVars, outsideMgr>>

\* process_symptom_smart copies the entries into its result and returns it;
\* run appends the result to all_results
ProcessSymptomSmartReturn ==
    /\ pc = "mgr_returned"
    /\ mgr_caller = "smart"
    /\ all_results' = Append(all_results, SmartResult(api_responses))
    /\ pc' = "smart_returned"
    /\ UNCHANGED <<mgr_clients, mgr_caller, mgr_symptom, client_pos,
                   api_responses, client_calls, outsideMgr>>

\* the exception leaves process_symptom_smart; run prints it and goes on
\* to the next line
RunSkipsLine ==
    /\ pc = "mgr_raised"
    /\ mgr_caller = "smart"
    /\ pc' = "smart_skipped"
    /\ UNCHANGED <<mgrVars, outsideMgr>>

MgrNext ==
    \/ ProcessSymptomEnter
    \/ ProcessSymptomCallClient
    \/ ProcessSymptomReturn
    \/ ProcessSymptomSmartReturn
    \/ RunSkipsLine

SpecMgr == MgrInit /\ [][MgrNext]_vars

-----------------------------------------------------------------------------

(* src/workflows/rerun_with_rag.py: the line loop of RerunWorkflow.run and
   _generate_evaluation_summary.  A query is kept as the pair of its first
   50 characters and the rest; a text of at most 50 characters has the
   rest "" *)

NoQuery == <<"", "">>

\* the queries of the cache lines: two texts that agree on their first 50
\* characters, the text that is just those 50 characters, another text, and
\* a line without query
Queries ==
    {<<"Chest pain radiating", " to the left arm">>,
     <<"Chest pain radiating", " to the jaw">>,
     <<"Chest pain radiating", "">>,
     <<"Shortness of breath", "">>,
     NoQuery}

\* symptom_text[:50] + "..." if len(symptom_text) > 50 else symptom_text
SymptomKey(query) ==
    IF query[2] # "" THEN <<query[1], "...">> ELSE query

\* d[key] = value on a dict kept as its items in insertion order
DictPut(d, key, value) ==
    IF \E i \in DOMAIN d : d[i].key = key
    THEN [i \in DOMAIN d |->
             IF d[i].key = key THEN [key |-> key, value |-> value] ELSE d[i]]
    ELSE Append(d, [key |-> key, value |-> value])

\* evaluation_summary after the loop over the first n items of all_comparisons
RECURSIVE SummaryOf(_, _)
SummaryOf(comparisons, n) ==
    IF n = 0 THEN <<>>
    ELSE DictPut(SummaryOf(comparisons, n - 1),
                 SymptomKey(comparisons[n].key),
                 [symptom_text |-> comparisons[n].key,
                  comparisons |-> comparisons[n].value])

_generate_evaluation_summary(comparisons) ==
    LET summary == SummaryOf(comparisons, Len(comparisons))
    IN  [total_symptoms |-> Len(summary), symptoms |-> summary]

RunInit ==
    /\ pc = "run_loop"
    /\ EvalIdle /\ CmpIdle /\ AggIdle /\ BatchIdle /\ ThreadsIdle /\ MgrIdle /\ RepIdle /\ TasksIdle
    /\ run_lines \in SeqsUpTo(Queries, MaxLines)
    /\ baseline_keys \in SUBSET (Queries \ {NoQuery})
    /\ line_idx = 1
    /\ all_comparisons = <<>>
    /\ evaluation_summary = NoEvaluationSummary

\* one line of the cache: skipped without a query; the API answers are
\* compared with the baseline when the query is a key of baseline_data; an
\* exception anywhere in the line is printed and the line left out
RunProcessLine ==
    /\ pc = "run_loop"
    /\ line_idx <= Len(run_lines)
    /\ line_idx' = line_idx + 1
    /\ LET original_query == run_lines[line_idx]
       IN  \E line_raises \in BOOLEAN :
              all_comparisons' =
                 IF /\ original_query # NoQuery
                    /\ ~line_raises
                    /\ original_query \in baseline_keys
                 THEN DictPut(all_comparisons, original_query, line_idx)
                 ELSE all_comparisons
    /\ UNCHANGED <<pc, run_lines, baseline_keys, evaluation_summary, outsideRun>>

\* after the loop: the summary is generated when there are comparisons
RunGenerateSummary ==
    /\ pc = "run_loop"
    /\ line_idx > Len(run_lines)
    /\ all_comparisons # <<>>
    /\ evaluation_summary' = _generate_evaluation_summary(all_comparisons)
    /\ pc' = "summarized"
    /\ UNCHANGED <<run_lines, line_idx, baseline_keys, all_comparisons, outsideRun>>

\* after the loop: nothing was compared, no summary
RunEndsWithoutSummary ==
    /\ pc = "run_loop"
    /\ line_idx > Len(run_lines)
    /\ all_comparisons = <<>>
    /\ pc' = "no_summary"
    /\ UNCHANGED <<runVars, outsideRun>>

RunNext == RunProcessLine \/ RunGenerateSummary \/ RunEndsWithoutSummary

SpecRun == RunInit /\ [][RunNext]_vars

-----------------------------------------------------------------------------

(* src/src/evaluator.py: Evaluator.evaluate_report_responses *)

\* the api_responses of one symptom, in the order of the dict's items
ReportResponses ==
    {FailedResponse,
     [success |-> TRUE, parsed_data |-> Present(<<"Aortic Valve">>),
      anatomical_locations |-> Present(<<"Aortic Valve">>),
      parsed_response |-> Absent],
     [success |-> TRUE, parsed_data |-> Present(<<"Aortic Valve", "Mitral Valve">>),
      anatomical_locations |-> Present(<<"Aortic Valve", "Mitral Valve">>),
      parsed_response |-> Absent]}

ReportSymptoms ==
    [api_responses : SeqsUpTo(ReportResponses, MaxApiResponses),
     expected_results : BatchExpected]

\* a list that takes a 0.0 for a failed call
ListAfter_ZeroForFailed(scores, response, score) == Append(scores, score)

\* total_scores / total_precision / total_recall after one API response:
\* the score is appended for a successful call, a failed call appends nothing
ListAfter(scores, response, score) ==
    IF response.success THEN Append(scores, score) ELSE scores

\* the summary's counters after one API response
CountersAfter(summary, response) ==
    IF response.success
    THEN [summary EXCEPT !.total_api_calls = @ + 1,
                         !.successful_api_calls = @ + 1]
    ELSE [summary EXCEPT !.total_api_calls = @ + 1,
                         !.failed_api_calls = @ + 1]

\* the entry stored in api_evaluations for a failed call
FailedEvaluation == ZeroScore("API call failed")

\* round(sum(scores) / len(scores), 1) in tenths.  The quotient is a float:
\* when the exact mean lies halfway between two tenths, the float lies just
\* above or just below it, depending on the operands, and round() gives the
\* neighbour on that side; both are allowed here
AverageChoices(scores) ==
    LET q == Sum(scores) \div Len(scores)
        r == Sum(scores) % Len(scores)
    IN  IF 2 * r = Len(scores) THEN {q, q + 1}
        ELSE {Round(Rat(Sum(scores), Len(scores)))}

RepInit ==
    /\ pc = "report_loop"
    /\ EvalIdle /\ CmpIdle /\ AggIdle /\ BatchIdle /\ ThreadsIdle /\ MgrIdle /\ RunIdle /\ TasksIdle
    /\ rep_symptoms \in SeqsUpTo(ReportSymptoms, MaxReportSymptoms)
    /\ rep_idx = 1
    /\ rep_api = 1
    /\ rep_summary = NewSummary
    /\ total_scores = <<>>
    /\ total_precision = <<>>
    /\ total_recall = <<>>
    /\ symptom_evaluations = <<>>

\* one pass of the loop over symptom_result['api_responses'].items(); the
\* counters are incremented before evaluate_single_response is called, and
\* its TypeError leaves evaluate_report_responses
EvaluateApiResponse ==
    /\ pc = "report_loop"
    /\ rep_idx <= Len(rep_symptoms)
    /\ rep_api <= Len(rep_symptoms[rep_idx].api_responses)
    /\ LET response == rep_symptoms[rep_idx].api_responses[rep_api]
           units == rep_symptoms[rep_idx].expected_results
           scored == evaluate_single_response(response, units)
       IN  /\ rep_summary' = CountersAfter(rep_summary, response)
           /\ IF EvaluateRaises(response, units)
              THEN /\ pc' = "report_raised"
                   /\ UNCHANGED <<rep_api, total_scores, total_precision,
                                  total_recall>>
              ELSE /\ pc' = pc
                   /\ rep_api' = rep_api + 1
                   /\ total_scores' =
                         ListAfter(total_scores, response, scored.overall_score)
                   /\ total_precision' =
                         ListAfter(total_precision, response, scored.precision)
                   /\ total_recall' =
                         ListAfter(total_recall, response, scored.recall)
    /\ UNCHANGED <<rep_symptoms, rep_idx, symptom_evaluations, outsideRep>>

\* the end of one pass of the loop over the symptoms: the symptom's
\* evaluations are appended
AppendSymptomEvaluation ==
    /\ pc = "report_loop"
    /\ rep_idx <= Len(rep_symptoms)
    /\ rep_api > Len(rep_symptoms[rep_idx].api_responses)
    /\ symptom_evaluations' =
          Append(symptom_evaluations,
                 [i \in DOMAIN rep_symptoms[rep_idx].api_responses |->
                     LET response == rep_symptoms[rep_idx].api_responses[i]
                     IN  IF response.success
                         THEN evaluate_single_response(
                                  response, rep_symptoms[rep_idx].expected_results)
                         ELSE FailedEvaluation])
    /\ rep_idx' = rep_idx + 1
    /\ rep_api' = 1
    /\ UNCHANGED <<pc, rep_symptoms, rep_summary, total_scores, total_precision,
                   total_recall, outsideRep>>

\* after the loops: the averages, when total_scores is not empty; return
ReportReturn ==
    /\ pc = "report_loop"
    /\ rep_idx > Len(rep_symptoms)
    /\ IF total_scores # <<>>
       THEN \E overall \in AverageChoices(total_scores),
               precision \in AverageChoices(total_precision),
               recall \in AverageChoices(total_recall) :
               rep_summary' = [rep_summary EXCEPT
                                  !.average_overall_score = overall,
                                  !.average_precision = precision,
                                  !.average_recall = recall]
       ELSE UNCHANGED rep_summary
    /\ pc' = "report_returned"
    /\ UNCHANGED <<rep_symptoms, rep_idx, rep_api, total_scores, total_precision,
                   total_recall, symptom_evaluations, outsideRep>>

RepNext == EvaluateApiResponse \/ AppendSymptomEvaluation \/ ReportReturn

SpecRep == RepInit /\ [][RepNext]_vars

-----------------------------------------------------------------------------

(* src/run_concurrent_evaluation.py: ConcurrentEvaluator.run_concurrent, its
   two run_task threads and generate_summary_report *)

\* the tasks list, in its order
TaskOrder == <<"Task1_Config_Default", "Task2_Config_CN">>

\* a join that returns at once
Joined_NoWait(t) == TRUE

\* thread.join() returns when the thread has terminated
Joined(t) == task_pc[t] = "terminated"

\* sum(1 for r in self.results.values() if r['status'] == status)
StatusCount(status) == Cardinality({t \in TaskNames : task_results[t] = status})

TasksInit ==
    /\ pc = "tasks"
    /\ EvalIdle /\ CmpIdle /\ AggIdle /\ BatchIdle /\ ThreadsIdle /\ MgrIdle /\ RunIdle /\ RepIdle
    /\ main_pc = [at |-> "start", i |-> 1]
    /\ task_pc = [t \in TaskNames |-> "created"]
    /\ task_results = [t \in TaskNames |-> "none"]
    /\ summary_report = NoSummaryReport

\* for thread in threads: thread.start(); time.sleep(2)
MainStartThread ==
    /\ main_pc.at = "start"
    /\ task_pc' = [task_pc EXCEPT ![TaskOrder[main_pc.i]] = "entered"]
    /\ main_pc' = IF main_pc.i < Len(TaskOrder)
                  THEN [at |-> "start", i |-> main_pc.i + 1]
                  ELSE [at |-> "join", i |-> 1]
    /\ UNCHANGED <<pc, task_results, summary_report, outsideTasks>>

\* for i, thread in enumerate(threads): thread.join()
MainJoinThread ==
    /\ main_pc.at = "join"
    /\ Joined(TaskOrder[main_pc.i])
    /\ main_pc' = IF main_pc.i < Len(TaskOrder)
                  THEN [at |-> "join", i |-> main_pc.i + 1]
                  ELSE [at |-> "summary", i |-> 1]
    /\ UNCHANGED <<pc, task_pc, task_results, summary_report, outsideTasks>>

\* self.generate_summary_report(...): the three counts over self.results
GenerateSummaryReport ==
    /\ main_pc.at = "summary"
    /\ summary_report' = [generated |-> TRUE,
                          success |-> StatusCount("success"),
                          failed |-> StatusCount("failed"),
                          error |-> StatusCount("error")]
    /\ main_pc' = [at |-> "done", i |-> 1]
    /\ UNCHANGED <<pc, task_pc, task_results, outsideTasks>>

\* run_task, lines 38-55: the log file is opened and the command started,
\* or one of the two raises
RunTaskOpen(t) ==
    /\ task_pc[t] = "entered"
    /\ \E raises \in BOOLEAN :
          task_pc' = [task_pc EXCEPT ![t] = IF raises THEN "except" ELSE "streaming"]
    /\ UNCHANGED <<pc, main_pc, task_results, summary_report, outsideTasks>>

\* lines 58-74: the output is copied until the process ends, then the
\* status is stored by return code; reading or writing may raise
RunTaskStoreStatus(t) ==
    /\ task_pc[t] = "streaming"
    /\ \E outcome \in {"success", "failed", "raises"} :
          IF outcome = "raises"
          THEN /\ task_pc' = [task_pc EXCEPT ![t] = "except"]
               /\ UNCHANGED task_results
          ELSE /\ task_pc' = [task_pc EXCEPT ![t] = "closing"]
               /\ task_results' = [task_results EXCEPT ![t] = outcome]
    /\ UNCHANGED <<pc, main_pc, summary_report, outsideTasks>>

\* the end of the with block closes the log, which may raise; otherwise
\* run_task returns and the thread ends
RunTaskCloseLog(t) ==
    /\ task_pc[t] = "closing"
    /\ \E raises \in BOOLEAN :
          task_pc' = [task_pc EXCEPT ![t] = IF raises THEN "except" ELSE "terminated"]
    /\ UNCHANGED <<pc, main_pc, task_results, summary_report, outsideTasks>>

\* lines 76-86: the except branch stores the error status; the thread ends
RunTaskExcept(t) ==
    /\ task_pc[t] = "except"
    /\ task_results' = [task_results EXCEPT ![t] = "error"]
    /\ task_pc' = [task_pc EXCEPT ![t] = "terminated"]
    /\ UNCHANGED <<pc, main_pc, summary_report, outsideTasks>>

TasksNext ==
    \/ MainStartThread
    \/ MainJoinThread
    \/ GenerateSummaryReport
    \/ \E t \in TaskNames :
          \/ RunTaskOpen(t)
          \/ RunTaskStoreStatus(t)
          \/ RunTaskCloseLog(t)
          \/ RunTaskExcept(t)

SpecTasks == TasksInit /\ [][TasksNext]_vars

-----------------------------------------------------------------------------

(* Claims about the two scorers, checked under SpecEval *)

\* the list without its repeated labels, first occurrences kept in order
RECURSIVE Dedup(_)
Dedup(s) ==
    IF s = <<>> THEN <<>>
    ELSE LET front == Dedup(SubSeq(s, 1, Len(s) - 1))
         IN  IF s[Len(s)] \in ToSet(front) THEN front
             ELSE Append(front, s[Len(s)])

\* the response with every location list replaced by Op(list)
MapLocations(resp, Op(_)) ==
    [resp EXCEPT !.parsed_data.locs = Op(@),
                 !.anatomical_locations.locs = Op(@),
                 !.parsed_response.locs = Op(@)]

Scores(r) == <<r.precision, r.recall, r.overgeneration_penalty, r.overall_score>>

InRange(r) == \A i \in 1..4 : Scores(r)[i] \in 0..1000

\* C1: every score the evaluator returns has precision, recall and
\* over-generation penalty within [0, 1] (0..100.0 on the code's percent
\* scale) and overall_score within [0, 100], also for predicted lists that
\* repeat a label.
C1_ScoresInRange ==
    /\ pc = "evaluated" => InRange(evaluation)
    /\ pc = "measured" => InRange(metrics)

\* C2: locations are matched as sets: a predicted list that repeats a label
\* scores the same precision, recall, penalty and overall score as the list
\* with the duplicates removed.
C2_DuplicatesDoNotMatter ==
    /\ pc = "evaluated" =>
          Scores(evaluation) =
          Scores(evaluate_single_response(MapLocations(api_response, Dedup),
                                          expected_results))
    /\ pc = "measured" =>
          Scores(metrics) =
          Scores(_calculate_location_metrics(Dedup(predicted_locations),
                                             expected_locations))

\* the penalty as the specification states it, for p predicted and n > 0
\* expected locations
PiecewisePenalty(p, n) ==
    IF p <= n THEN Rat(1, 1)
    ELSE IF p <= 2 * n THEN Rat(2 * n - (p - n), 2 * n)
    ELSE IF p <= 3 * n THEN Rat(n - (p - 2 * n), 2 * n)
    ELSE Rat(0, 1)

\* a call that reached the scoring code: both lists are non-empty
EvaluatorScored ==
    /\ pc = "evaluated" /\ api_response.success
    /\ ActualLocationsOf(api_response) # <<>>
    /\ ExpectedLocationsOf(expected_results) # {}

MetricsScored ==
    pc = "measured" /\ predicted_locations # <<>> /\ expected_locations # {}

\* C6: the over-generation penalty is 1.0 for ratio <= 1,
\* 1.0 - 0.5 * (ratio - 1) for 1 < ratio <= 2, 0.5 - 0.5 * (ratio - 2) for
\* 2 < ratio <= 3 and 0 for ratio > 3, with ratio = |predicted| / |expected|,
\* and 0 when expected is empty.
C6_PenaltyIsPiecewiseLinear ==
    /\ EvaluatorScored =>
          evaluation.overgeneration_penalty =
          RoundPercent(PiecewisePenalty(
              Len(ActualLocationsOf(api_response)),
              Cardinality(ExpectedLocationsOf(expected_results))))
    /\ MetricsScored =>
          metrics.overgeneration_penalty =
          RoundPercent(PiecewisePenalty(Len(predicted_locations),
                                        Cardinality(expected_locations)))
    /\ pc = "evaluated" /\ ExpectedLocationsOf(expected_results) = {} =>
          evaluation.overgeneration_penalty = 0
    /\ pc = "measured" /\ expected_locations = {} =>
          metrics.overgeneration_penalty = 0

\* the part of C6 that is about Evaluator._calculate_overgeneration_penalty
EvaluatorPenaltyIsPiecewiseLinear ==
    EvaluatorScored =>
       REq(_calculate_overgeneration_penalty(
               ActualLocationsOf(api_response),
               ExpectedLocationsOf(expected_results)),
           PiecewisePenalty(Len(ActualLocationsOf(api_response)),
                            Cardinality(ExpectedLocationsOf(expected_results))))

\* the first q elements of s (all of s when it is shorter)
Prefix(s, q) == IF q < Len(s) THEN SubSeq(s, 1, q) ELSE s

\* the penalty the evaluator returns for the first q predicted locations
EvaluatorPenaltyAt(q) ==
    LET First(s) == Prefix(s, q)
    IN  evaluate_single_response(MapLocations(api_response, First),
                                 expected_results).overgeneration_penalty

MetricsPenaltyAt(q) ==
    _calculate_location_metrics(Prefix(predicted_locations, q),
                                expected_locations).overgeneration_penalty

\* C7: for a fixed expected set of size n the penalty never increases as
\* the predicted list grows beyond n, it is positive for every predicted
\* size below 3n and it is exactly 0 for every predicted size >= 3n.
C7_PenaltyMonotoneToZeroAt3n ==
    /\ EvaluatorScored =>
          LET p == Len(ActualLocationsOf(api_response))
              n == Cardinality(ExpectedLocationsOf(expected_results))
          IN  /\ \A q \in n..p :
                    EvaluatorPenaltyAt(q) >= evaluation.overgeneration_penalty
              /\ p < 3 * n => evaluation.overgeneration_penalty > 0
              /\ p >= 3 * n => evaluation.overgeneration_penalty = 0
    /\ MetricsScored =>
          LET p == Len(predicted_locations)
              n == Cardinality(expected_locations)
          IN  /\ \A q \in n..p :
                    MetricsPenaltyAt(q) >= metrics.overgeneration_penalty
              /\ p < 3 * n => metrics.overgeneration_penalty > 0
              /\ p >= 3 * n => metrics.overgeneration_penalty = 0

\* the part of C7 that is about the Evaluator
EvaluatorPenaltyMonotoneToZeroAt3n ==
    EvaluatorScored =>
       LET p == Len(ActualLocationsOf(api_response))
           n == Cardinality(ExpectedLocationsOf(expected_results))
       IN  /\ \A q \in n..p :
                 EvaluatorPenaltyAt(q) >= evaluation.overgeneration_penalty
           /\ p < 3 * n => evaluation.overgeneration_penalty > 0
           /\ p >= 3 * n => evaluation.overgeneration_penalty = 0

-----------------------------------------------------------------------------
(* Claims about the comparison, checked under SpecCmp *)

\* the verdict a comparison record carries: the assessment text starts with
\* the marker of "improved", "unchanged" or "declined"
Verdict(c) ==
    CASE c.overall_assessment = "effective" -> "improved"
      [] c.overall_assessment = "no effect" -> "unchanged"
      [] c.overall_assessment = "negative" -> "declined"

OverallDelta(c) == c.metrics_improvement.overall_improvement

\* C4: the verdict of a comparison is decided by the sign of overall_delta
\* alone: improved exactly when it is > 0, declined exactly when it is < 0,
\* unchanged exactly when it is 0, whatever the other changes are.
C4_VerdictIsSignOfOverallDelta ==
    \A api_name \in DOMAIN comparison :
        LET c == comparison[api_name]
        IN  /\ Verdict(c) = "improved" <=> OverallDelta(c) > 0
            /\ Verdict(c) = "declined" <=> OverallDelta(c) < 0
            /\ Verdict(c) = "unchanged" <=> OverallDelta(c) = 0

\* the end-to-end scenario: expected {Aortic Valve, Left Ventricle (LV)},
\* baseline predicts {Aortic Valve}, RAG predicts both
IsScenario(c) ==
    /\ CmpExpectedLocations(cmp_expected) = {"Aortic Valve", "Left Ventricle (LV)"}
    /\ c.baseline_locations = <<"Aortic Valve">>
    /\ c.rag_locations = <<"Aortic Valve", "Left Ventricle (LV)">>

\* C5 as stated: in the scenario the baseline scores precision 1,
\* recall 0.5, penalty 1 and overall 60, the augmented answer scores 100,
\* overall_delta is 40 and the verdict is improved.
C5_ScenarioAsStated ==
    \A api_name \in DOMAIN comparison :
        LET c == comparison[api_name]
        IN  IsScenario(c) =>
              /\ c.baseline_metrics.precision = 1000
              /\ c.baseline_metrics.recall = 500
              /\ c.baseline_metrics.overgeneration_penalty = 1000
              /\ c.baseline_metrics.overall_score = 600
              /\ c.rag_metrics.overall_score = 1000
              /\ OverallDelta(c) = 400
              /\ Verdict(c) = "improved"

\* C5 amended: in the scenario the baseline scores precision 1, recall 0.5,
\* penalty 1 and overall 80 (100 * (0.4 + 0.2 + 0.2)), the augmented answer
\* scores 100, overall_delta is 20 and the verdict is improved.
C5_ScenarioScores ==
    \A api_name \in DOMAIN comparison :
        LET c == comparison[api_name]
        IN  IsScenario(c) =>
              /\ c.baseline_metrics.precision = 1000
              /\ c.baseline_metrics.recall = 500
              /\ c.baseline_metrics.overgeneration_penalty = 1000
              /\ c.baseline_metrics.overall_score = 800
              /\ c.rag_metrics.precision = 1000
              /\ c.rag_metrics.recall = 1000
              /\ c.rag_metrics.overgeneration_penalty = 1000
              /\ c.rag_metrics.overall_score = 1000
              /\ OverallDelta(c) = 200
              /\ Verdict(c) = "improved"

C5_ScenarioReached ==
    /\ pc = "compared"
    /\ \E api_name \in DOMAIN comparison : IsScenario(comparison[api_name])

-----------------------------------------------------------------------------
(* Claims about the analyzer, checked under SpecAgg *)

\* the step offered one more sample to _process_api_scores
SampleProcessed == SamplesOffered' = SamplesOffered + 1

\* the lists every count, ratio and mean of an API is computed from
ValidPart(sc) ==
    <<sc.baseline_scores, sc.rag_scores, sc.improvements, sc.declines,
      sc.no_change, sc.valid_reports>>

\* the counts, ratios and means calculate_statistics reports
ValidStats(sc) ==
    LET e == StatsEntry(sc)
    IN  <<e.s_numbers, e.improvement_count, e.decline_count, e.no_change_count,
          e.improvement_ratio, e.decline_ratio, e.no_change_ratio,
          e.scores_without_rag, e.scores_with_rag>>

InvalidCount(sc) == StatsEntry(sc).invalid_reports_count

BothScoresZeroAndNoOrgans(d) ==
    /\ d.baseline_metrics.overall_score = 0
    /\ d.rag_metrics.overall_score = 0
    /\ d.baseline_organ = <<>>
    /\ d.rag_organ = <<>>

\* C3: a sample whose two overall scores are 0 and whose two predicted
\* organs are empty is excluded from valid_total, increments invalid_count
\* and leaves every count, ratio and mean of that API as it was.
C3_DegenerateSampleOnlyCountsAsInvalid ==
    [][ SampleProcessed /\ BothScoresZeroAndNoOrgans(offered'[1].symptom_data) =>
          LET api == offered'[1].api
          IN  /\ ValidStats(api_scores'[api]) = ValidStats(api_scores[api])
              /\ InvalidCount(api_scores'[api]) = InvalidCount(api_scores[api]) + 1
      ]_vars

\* the part of C3 that is about the valid statistics
DegenerateSampleLeavesValidStats ==
    [][ SampleProcessed /\ BothScoresZeroAndNoOrgans(offered'[1].symptom_data) =>
          LET api == offered'[1].api
          IN  /\ ValidPart(api_scores'[api]) = ValidPart(api_scores[api])
              /\ Len(api_scores'[api].invalid_reports)
                    = Len(api_scores[api].invalid_reports) + 1
      ]_vars

\* the four conditions of the validity gate
Excludable(d) ==
    \/ d.baseline_organ = <<>>
    \/ d.rag_organ = <<>>
    \/ d.baseline_locations = <<>> /\ d.rag_locations = <<>>
    \/ d.baseline_metrics.overall_score = 0 /\ d.rag_metrics.overall_score = 0
    \/ /\ d.baseline_organ_accuracy.description = "no organ identified"
       /\ d.rag_organ_accuracy.description = "no organ identified"

C9_ExcludedSamplesAreCounted ==
    pc = "calculated" =>
       \A api \in DOMAIN stats :
          /\ stats[api].invalid_reports_count = excluded_count[api]
          /\ stats[api].empty_results_count + stats[api].zero_scores_count
                = excluded_count[api]

NoValidSample(api) == api_scores[api].baseline_scores = <<>>

Divisors(sc) == {Len(sc.baseline_scores), Len(sc.rag_scores)}

ValidTotal(api) == Len(api_scores[api].valid_reports)

CountsSumToValidTotal(api) ==
    /\ stats[api].s_numbers = ValidTotal(api)
    /\ stats[api].improvement_count + stats[api].decline_count
          + stats[api].no_change_count = ValidTotal(api)

RatioSum(api) ==
    stats[api].improvement_ratio + stats[api].decline_ratio
       + stats[api].no_change_ratio

Abs(x) == IF x < 0 THEN -x ELSE x

\* ratio (in hundredths of a percent) is count / total to two decimals
IsRoundedShare(ratio, count, total) ==
    2 * Abs(ratio * total - count * 10000) <= total

\* C11 as stated: the three counts sum to valid_total, each reported ratio
\* is exactly its count divided by valid_total, and the three ratios sum to
\* exactly 100%.
C11_RatiosSumTo100 ==
    pc = "calculated" =>
       \A api \in DOMAIN stats :
          /\ CountsSumToValidTotal(api)
          /\ stats[api].improvement_ratio * ValidTotal(api)
                = stats[api].improvement_count * 10000
          /\ stats[api].decline_ratio * ValidTotal(api)
                = stats[api].decline_count * 10000
          /\ stats[api].no_change_ratio * ValidTotal(api)
                = stats[api].no_change_count * 10000
          /\ RatioSum(api) = 10000

\* C11 amended: the three counts sum to valid_total (refused samples not
\* included), each reported ratio is its count divided by valid_total as a
\* percentage rounded to two decimals, and the three ratios sum to 100%
\* within 0.01.
C11_RatiosAreRoundedShares ==
    pc = "calculated" =>
       \A api \in DOMAIN stats :
          /\ CountsSumToValidTotal(api)
          /\ IsRoundedShare(stats[api].improvement_ratio,
                            stats[api].improvement_count, ValidTotal(api))
          /\ IsRoundedShare(stats[api].decline_ratio,
                            stats[api].decline_count, ValidTotal(api))
          /\ IsRoundedShare(stats[api].no_change_ratio,
                            stats[api].no_change_count, ValidTotal(api))
          /\ Abs(RatioSum(api) - 10000) <= 1

\* statistics of an API with one improved, one declined and one unchanged
\* sample
C11_ThreeWaySplit ==
    /\ pc = "calculated"
    /\ \E api \in DOMAIN stats :
          /\ stats[api].improvement_count = 1
          /\ stats[api].decline_count = 1
          /\ stats[api].no_change_count = 1

-----------------------------------------------------------------------------
(* Claims about missing data, checked under SpecEval *)

IsZeroScore(r) ==
    /\ r.precision = 0 /\ r.recall = 0
    /\ r.overgeneration_penalty = 0 /\ r.overall_score = 0

IsPerfectScore(r) ==
    /\ r.precision = 1000 /\ r.recall = 1000
    /\ r.overgeneration_penalty = 1000 /\ r.overall_score = 1000

\* C12: with an empty predicted list or an empty expected list both scorers
\* return the zero score (precision, recall, penalty and overall all 0), and
\* a single predicted location equal to the single expected one scores
\* precision 1, recall 1, penalty 1 and overall 100.
C12_EmptySideScoresZero ==
    /\ pc = "evaluated" /\ api_response.success =>
          LET actual == ActualLocationsOf(api_response)
              expected == ExpectedLocationsOf(expected_results)
          IN  /\ actual = <<>> \/ expected = {} => IsZeroScore(evaluation)
              /\ Len(actual) = 1 /\ expected = {actual[1]}
                    => IsPerfectScore(evaluation)
    /\ pc = "measured" =>
          /\ predicted_locations = <<>> \/ expected_locations = {}
                => IsZeroScore(metrics)
          /\ Len(predicted_locations) = 1
                /\ expected_locations = {predicted_locations[1]}
                => IsPerfectScore(metrics)

\* a successful response without locations was scored against a ground
\* truth that has some
C12_EmptyPredictionScored ==
    /\ pc = "evaluated" /\ api_response.success
    /\ ActualLocationsOf(api_response) = <<>>
    /\ ExpectedLocationsOf(expected_results) # {}
    /\ IsZeroScore(evaluation)

\* C13: evaluation never raises for missing data: whatever fields of the
\* response and of the ground truth are absent, null or empty,
\* evaluate_single_response and the comparison return a score record.
C13_NeverRaises ==
    /\ pc # "raised"
    /\ pc = "evaluated" => DOMAIN evaluation = DOMAIN ZeroScore("")

-----------------------------------------------------------------------------
(* Claims about the organ accuracy, checked under SpecCmp *)

\* ignoring case, one name contains the other
ContainsEitherWay(a, b) ==
    IsSubstring(Lower(a), Lower(b)) \/ IsSubstring(Lower(b), Lower(a))

Classified(category, score) ==
    organ_accuracy.category = category /\ organ_accuracy.score = score

\* C14 as stated: unknown (0) without an expected organ; otherwise
\* exact_match (1.0) when the predicted organ is one of the expected organs;
\* otherwise partial_match (0.6) when, ignoring case, the predicted organ
\* contains or is contained in an expected organ; otherwise incorrect (0.0).
C14_OrganClasses ==
    pc = "classified" =>
       IF organs_expected = {} THEN Classified("unknown", 0)
       ELSE IF organ_predicted \in organs_expected
            THEN Classified("exact_match", 10)
       ELSE IF \E e \in organs_expected : ContainsEitherWay(organ_predicted, e)
            THEN Classified("partial_match", 6)
       ELSE Classified("incorrect", 0)

\* C14 amended: as stated, except that an empty predicted organ is incorrect
\* (0.0) whenever an organ is expected, although the empty name is contained
\* in every expected organ.
C14_OrganClassesEmptyIsIncorrect ==
    pc = "classified" =>
       IF organs_expected = {} THEN Classified("unknown", 0)
       ELSE IF organ_predicted = <<>> THEN Classified("incorrect", 0)
       ELSE IF organ_predicted \in organs_expected
            THEN Classified("exact_match", 10)
       ELSE IF \E e \in organs_expected : ContainsEitherWay(organ_predicted, e)
            THEN Classified("partial_match", 6)
       ELSE Classified("incorrect", 0)

\* the predicted organ is one of two expected organs and is, ignoring case,
\* contained in the other: the exact match wins
C14_ExactBeforePartial ==
    /\ pc = "classified"
    /\ organ_predicted \in organs_expected
    /\ \E e \in organs_expected \ {organ_predicted} :
          ContainsEitherWay(organ_predicted, e)
    /\ Classified("exact_match", 10)

-----------------------------------------------------------------------------
(* Claims about the evidence assessment, checked under SpecRag *)

\* the number of distinct organ names among the units
DistinctOrgans == Cardinality(UniqueOrgans(rag_results))

\* C15: when exactly one distinct organ appears among the units, the filter
\* returns the input units unchanged: every unit, also one without an organ,
\* is in the filtered list, in the same order.
C15_OneOrganKeepsAllUnits ==
    pc = "assessed" /\ DistinctOrgans = 1 => primary_refs = rag_results

\* what does hold with one distinct organ: the units that name it are
\* returned, in order
OneOrganKeepsItsUnits ==
    pc = "assessed" /\ DistinctOrgans = 1 =>
       primary_refs = SelectSeq(rag_results, LAMBDA u : u.organ.organName # <<>>)

\* occurrences of an organ name among the units
Occurrences(name) ==
    Cardinality({i \in DOMAIN rag_results :
                    rag_results[i].organ.organName = name})

\* position of the first unit that names the organ
FirstSeen(name) ==
    CHOOSE i \in DOMAIN rag_results :
        /\ rag_results[i].organ.organName = name
        /\ \A j \in 1..(i - 1) : rag_results[j].organ.organName # name

\* the organ named most often, the one seen first among those that tie
PluralityOrgan ==
    CHOOSE name \in UniqueOrgans(rag_results) :
        \A other \in UniqueOrgans(rag_results) \ {name} :
            \/ Occurrences(other) < Occurrences(name)
            \/ /\ Occurrences(other) = Occurrences(name)
               /\ FirstSeen(name) < FirstSeen(other)

\* C16: with more than one distinct organ the filtered list holds exactly
\* the units of the plurality organ, in order, and among organs that tie
\* for the highest count the one seen first wins.
C16_PluralityOrganKept ==
    pc = "assessed" /\ DistinctOrgans > 1 =>
       LET kept == PluralityOrgan
       IN  primary_refs =
              SelectSeq(rag_results, LAMBDA u : u.organ.organName = kept)

\* two organs tie and the units of the one seen first were kept, the other
\* organ's dropped
C16_TieWonByFirstSeen ==
    /\ pc = "assessed"
    /\ DistinctOrgans = 2
    /\ \A name \in UniqueOrgans(rag_results) : Occurrences(name) = 1
    /\ primary_refs # <<>>
    /\ \A i \in DOMAIN primary_refs :
          primary_refs[i].organ.organName = rag_results[1].organ.organName
    /\ rag_results[Len(rag_results)].organ.organName \notin
          {<<>>, rag_results[1].organ.organName}

\* ---------------------------------------------------------------------
\* C17  The trust score is the average per-unit quality minus 0.4 when
\*      more than one distinct organ name appears across the units and
\*      minus a further 0.2 when more than five distinct locations appear,
\*      clamped to [0, 1]; it is always within [0, 1]; without units it is
\*      0.0 and the filtered list is empty.
\* ---------------------------------------------------------------------
DistinctLocations == Cardinality(UniqueLocations(rag_results))

\* the penalty of the claim, from the two conditions
ClaimedPenalty ==
    IF DistinctOrgans > 1 /\ DistinctLocations > 5 THEN FAdd(F0_4, F0_2)
    ELSE IF DistinctOrgans > 1 THEN F0_4
    ELSE IF DistinctLocations > 5 THEN F0_2
    ELSE F0_0

C17_TrustScore ==
    pc = "assessed" =>
       /\ rag_results = <<>> =>
             rag_quality.quality = F0_0 /\ primary_refs = <<>>
       /\ rag_results # <<>> =>
             LET raw == RawQuality(rag_results)
                 penalty == ClaimedPenalty
             IN  rag_quality.quality =
                    IF FGt(raw, penalty) THEN FSub(raw, penalty) ELSE F0_0
       /\ ~FGt(rag_quality.quality, F1_0)
       /\ ~FGt(F0_0, rag_quality.quality)

\* six locations of one organ only: the smaller penalty alone, and a score
\* left above zero
C17_LocationPenaltyAlone ==
    /\ pc = "assessed"
    /\ DistinctOrgans = 1
    /\ DistinctLocations > 5
    /\ FGt(rag_quality.quality, F0_0)
    /\ FGt(RawQuality(rag_results), rag_quality.quality)

C17_BothPenalties ==
    /\ pc = "assessed"
    /\ DistinctOrgans > 1
    /\ DistinctLocations > 5
    /\ FGt(rag_quality.quality, F0_0)

C17_ClampedAtZero ==
    /\ pc = "assessed"
    /\ rag_results # <<>>
    /\ FGt(ClaimedPenalty, RawQuality(rag_results))
    /\ rag_quality.quality = F0_0

\* ---------------------------------------------------------------------
\* C18  The raw quality of an evidence batch is the mean over all units of
\*      the per-unit increment (0.3 for a text longer than 30 characters,
\*      0.2 for an organ, 0.2 more for an organ with a location, 0.1 for a
\*      text with a generic medical term); it never exceeds 0.8.
\* ---------------------------------------------------------------------
\* the increment of one unit, in tenths
ClaimedIncrement(unit) ==
    (IF unit.text.length > 30 THEN 3 ELSE 0)
    + (IF unit.organ.present THEN 2 ELSE 0)
    + (IF unit.organ.present /\ unit.organ.anatomicalLocations # <<>>
       THEN 2 ELSE 0)
    + (IF unit.text.has_term THEN 1 ELSE 0)

RECURSIVE ClaimedTotal(_)
ClaimedTotal(units) ==
    IF units = <<>> THEN 0
    ELSE ClaimedIncrement(Head(units)) + ClaimedTotal(Tail(units))

\* 0.8 as a double, and the next double above it
F0_8 == FAdd(F0_4, F0_4)
F0_8_Next == <<F0_8[1], F0_8[2], F0_8[3] + 32>>

\* x is within 2^-48 of tenths / (10 * n)
IsMeanOfTenths(x, tenths, n) ==
    LET m == 10 * n
        a1 == x[1] * m - tenths * 2^18
    IN  /\ a1 \in -2000..2000
        /\ LET h == a1 * Limb + x[2] * m
           IN  /\ h \in -64..64
               /\ Abs(h * Limb + x[3] * m) <= 1024 * m

RawQualityIsMean(raw) ==
    IsMeanOfTenths(raw, ClaimedTotal(rag_results), Len(rag_results))

HarmonicMean(predicted, expected) ==
    LET correct == Cardinality({i \in DOMAIN predicted : predicted[i] \in expected})
        p == IF predicted = <<>> \/ expected = {} THEN Rat(0, 1)
             ELSE Rat(correct, Len(predicted))
        r == IF predicted = <<>> \/ expected = {} THEN Rat(0, 1)
             ELSE Rat(correct, Cardinality(expected))
    IN  IF correct = 0 \/ predicted = <<>> \/ expected = {} THEN 0
        ELSE RoundPercent(RDiv(RMul(Rat(2, 1), RMul(p, r)), RAdd(p, r)))

DeltaKeys ==
    {"precision_improvement", "recall_improvement", "f1_improvement",
     "overall_improvement"}

SummaryKeys ==
    {"overall_delta", "precision_delta", "recall_delta",
     "overgeneration_penalty_delta"}

\* the deltas of _compare_responses
RerunDeltasAreDifferences ==
    \A api \in DOMAIN comparison :
       LET c == comparison[api]
           d == c.metrics_improvement
           expected == CmpExpectedLocations(cmp_expected)
           swapped == _compare_responses(rag_responses, baseline_responses,
                                         cmp_expected)[api].metrics_improvement
       IN  /\ d.precision_improvement =
                 c.rag_metrics.precision - c.baseline_metrics.precision
           /\ d.recall_improvement =
                 c.rag_metrics.recall - c.baseline_metrics.recall
           /\ d.overall_improvement =
                 c.rag_metrics.overall_score - c.baseline_metrics.overall_score
           /\ d.f1_improvement =
                 HarmonicMean(rag_responses[api].anatomical_locations, expected)
                 - HarmonicMean(baseline_responses[api].anatomical_locations,
                                expected)
           /\ \A k \in DeltaKeys : swapped[k] = 0 - d[k]

\* the deltas of process_report, when both runs hold the API
SummaryDeltasAreDifferences ==
    baseline_api_result # NoResult /\ rag_api_result # NoResult =>
       LET d == symptom_comparison
           swapped == ComparisonSummary(rag_evaluation, baseline_evaluation)
       IN  /\ d.overall_delta =
                 rag_evaluation.overall_score - baseline_evaluation.overall_score
           /\ d.precision_delta =
                 rag_evaluation.precision - baseline_evaluation.precision
           /\ d.recall_delta =
                 rag_evaluation.recall - baseline_evaluation.recall
           /\ \A k \in SummaryKeys : swapped[k] = 0 - d[k]

C19_DeltasAreDifferences ==
    /\ pc = "compared" => RerunDeltasAreDifferences
    /\ pc = "summarised" => SummaryDeltasAreDifferences

\* an API whose precision and F1 fall by different amounts while its recall
\* stays
C19_PrecisionAndF1Fall ==
    /\ pc = "compared"
    /\ \E api \in DOMAIN comparison :
          LET d == comparison[api].metrics_improvement
          IN  /\ d.f1_improvement < 0
              /\ d.precision_improvement < d.f1_improvement
              /\ d.recall_improvement = 0
              /\ d.overall_improvement < 0

\* process_report compares two evaluated runs and the score falls
C19_SummaryFalls ==
    /\ pc = "summarised"
    /\ baseline_api_result # NoResult
    /\ rag_api_result # NoResult
    /\ symptom_comparison.overall_delta < 0
    /\ symptom_comparison.precision_delta < 0

\* ---------------------------------------------------------------------
\* C20  Folding the same samples into the analyzer in any order gives the
\*      same statistics for every API: accumulation is commutative and
\*      associative.
\* ---------------------------------------------------------------------
\* the orders a sequence can be put in
Orders(s) ==
    {[i \in DOMAIN s |-> s[p[i]]] :
        p \in {f \in [DOMAIN s -> DOMAIN s] :
                  \A i, j \in DOMAIN s : f[i] = f[j] => i = j}}

\* a sample that _process_api_scores reads as the entry e of the history
SampleOf(e) == CHOOSE d \in AggSamples : ReadOf(d, e.report_id) = e

\* api_scores[api] after the entries were processed one by one
RECURSIVE FoldScores(_)
FoldScores(entries) ==
    IF entries = <<>> THEN EmptyScores
    ELSE LET last == entries[Len(entries)]
         IN  _process_api_scores(FoldScores(SubSeq(entries, 1, Len(entries) - 1)),
                                 SampleOf(last), last.report_id)

NoStats == [s_numbers |-> 0]

\* what calculate_statistics reports for an API after the entries
StatsOfFold(entries) ==
    IF HasValidData(FoldScores(entries)) THEN StatsEntry(FoldScores(entries))
    ELSE NoStats

ReportedStats(api) == IF api \in DOMAIN stats THEN stats[api] ELSE NoStats

ScoreLists == {"total_scores_without_rag", "total_scores_with_rag"}

\* the statistics without the two lists of raw scores
Figures(st) == [k \in (DOMAIN st) \ ScoreLists |-> st[k]]

\* how often each value occurs in a list
Occurs(s) == [v \in ToSet(s) |-> Cardinality({i \in DOMAIN s : s[i] = v})]

SameScores(st1, st2) ==
    \A k \in ScoreLists :
       (k \in DOMAIN st1) = (k \in DOMAIN st2)
       /\ (k \in DOMAIN st1 => Occurs(st1[k]) = Occurs(st2[k]))

\* as stated: every order gives the statistics that were reported
C20_AnyOrderSameStats ==
    pc = "calculated" =>
       \A api \in APIs :
          \A order \in Orders(folded[api]) :
             StatsOfFold(order) = ReportedStats(api)

\* amended: every order gives the same counts, ratios and means, and the
\* same raw scores in the two total_scores lists, whose order is the order
\* of the samples
C20_AnyOrderSameFigures ==
    pc = "calculated" =>
       \A api \in APIs :
          /\ StatsOfFold(folded[api]) = ReportedStats(api)
          /\ \A order \in Orders(folded[api]) :
                /\ Figures(StatsOfFold(order)) = Figures(ReportedStats(api))
                /\ SameScores(StatsOfFold(order), ReportedStats(api))

\* an API was given three samples, one of them refused, and the two valid
\* ones have different baseline scores
C20_ThreeSamplesTwoScores ==
    /\ pc = "calculated"
    /\ \E api \in DOMAIN stats :
          /\ Len(folded[api]) = 3
          /\ stats[api].invalid_reports_count = 1
          /\ Len(stats[api].total_scores_without_rag) = 2
          /\ stats[api].total_scores_without_rag[1]
                # stats[api].total_scores_without_rag[2]

-----------------------------------------------------------------------------
(* Claims about the symptom loop, checked under SpecBatch *)

\* ---------------------------------------------------------------------
\* C21  One bad symptom never aborts a batch: when the processing of a
\*      symptom raises, the later symptoms are still processed, and the
\*      report result holds exactly one entry, scored or error, for every
\*      input symptom, in input order.
\* ---------------------------------------------------------------------
\* the entries so far are those of the symptoms passed, in order
OneEntryPerSymptom ==
    /\ Len(report_results) = symptom_idx - 1
    /\ \A i \in DOMAIN report_results :
          /\ report_results[i].diagnosis = DiagnosisOf(symptoms[i])
          /\ report_results[i].expected_organs = symptoms[i].expected_results

C21_RaiseInsideTryIsRecorded ==
    pc \in {"batch", "returned"} => OneEntryPerSymptom

\* the batch was cut short by a symptom whose text is null, with symptoms
\* left unprocessed behind it
C21_AbortedBeforeLastSymptom ==
    /\ pc = "aborted"
    /\ symptom_idx < Len(symptoms)
    /\ Len(report_results) = symptom_idx - 1

-----------------------------------------------------------------------------
(* Claims about the ground truth of several units, checked under SpecEval *)

\* ---------------------------------------------------------------------
\* C22  Ground truth is the de-duplicated union of the anatomicalLocations
\*      of all expected units: for a successful response whose locations
\*      arrive under parsed_response.anatomicalLocations the evaluator
\*      returns, without raising, a record with overall_score, precision,
\*      recall and overgeneration_penalty, and a prediction equal to that
\*      union gets the maximum score on all four.
\* ---------------------------------------------------------------------
\* the response carries its locations under parsed_response only
UnderParsedResponse(resp) ==
    /\ resp.success
    /\ ~resp.parsed_data.has
    /\ ~resp.anatomical_locations.has
    /\ resp.parsed_response.has

EvaluatorCalled == pc \in {"evaluated", "raised"}

\* the prediction lists every label of the union once
PredictionIsUnion ==
    LET predicted == api_response.parsed_response.locs
    IN  /\ ToSet(predicted) = ExpectedLocationsOf(expected_results)
        /\ Len(predicted) = Cardinality(ToSet(predicted))

ScoreFields == {"overall_score", "precision", "recall", "overgeneration_penalty"}

C22_UnionScoresMaximum ==
    EvaluatorCalled /\ UnderParsedResponse(api_response) =>
       /\ pc = "evaluated"
       /\ ScoreFields \subseteq DOMAIN evaluation
       /\ PredictionIsUnion => \A f \in ScoreFields : evaluation[f] = 1000

\* what holds: when every unit has a list of locations and the union is
\* not empty
UnionScoresMaximumForLists ==
    /\ EvaluatorCalled
    /\ UnderParsedResponse(api_response)
    /\ \A i \in DOMAIN expected_results :
          expected_results[i].anatomicalLocations # None
    =>
       /\ pc = "evaluated"
       /\ ScoreFields \subseteq DOMAIN evaluation
       /\ PredictionIsUnion /\ ExpectedLocationsOf(expected_results) # {} =>
             \A f \in ScoreFields : evaluation[f] = 1000

\* two units with one label each, and a prediction of both
TwoUnitsUnionPredicted ==
    /\ pc = "evaluated"
    /\ UnderParsedResponse(api_response)
    /\ Len(expected_results) = 2
    /\ expected_results[1].anatomicalLocations = <<"Aortic Valve">>
    /\ expected_results[2].anatomicalLocations = <<"Left Ventricle (LV)">>
    /\ PredictionIsUnion
    /\ evaluation.overall_score = 1000

-----------------------------------------------------------------------------
(* Claims about concurrent evaluator calls, checked under SpecThreads *)

\* ---------------------------------------------------------------------
\* C23  The evaluator keeps no state between calls and does not modify
\*      its arguments: under every interleaving of concurrent evaluate
\*      calls, each call returns the same result as when it runs alone.
\* ---------------------------------------------------------------------
\* what the call of thread t returns when nothing else runs
AloneOutcome(t) ==
    IF EvaluateRaises(ArgOf(t).response, ArgOf(t).units)
    THEN [pc |-> "raised", result |-> NoCall]
    ELSE [pc |-> "done",
          result |-> evaluate_single_response(ArgOf(t).response, ArgOf(t).units)]

CallEnded(t) == thr_pc[t] \in {"done", "raised"}

EachCallAsAlone ==
    \A t \in Threads :
       CallEnded(t) =>
          /\ thr_pc[t] = AloneOutcome(t).pc
          /\ thr_result[t] = AloneOutcome(t).result

ArgumentsUntouched == [][call_args' = call_args]_vars

C23_ConcurrentCallsAsAlone == []EachCallAsAlone /\ ArgumentsUntouched

\* both calls have returned scores, on different arguments, and thread 2
\* gathered its expected locations between two steps of thread 1
C23_BothScoredDifferently ==
    /\ \A t \in Threads : thr_pc[t] = "done"
    /\ thr_result[1].overall_score > 0
    /\ thr_result[2].overall_score > 0
    /\ thr_result[1] # thr_result[2]
    /\ thr_arg[1] # thr_arg[2]

\* thread 1 is between gathering and scoring while thread 2 has gathered
\* other expected locations
C23_Interleaved ==
    /\ thr_pc[1] = "score"
    /\ thr_pc[2] = "extract"
    /\ frame[1].expected # frame[2].expected
    /\ frame[1].expected # {}

-----------------------------------------------------------------------------
(* Claims about the two scorers side by side, checked under SpecEval *)

\* ---------------------------------------------------------------------
\* C24  The location metrics of the baseline-vs-RAG comparison agree with
\*      the Evaluator: for every predicted and expected location list,
\*      _calculate_location_metrics returns the same precision, recall,
\*      overgeneration_penalty and overall_score as
\*      Evaluator.evaluate_single_response on the same lists.
\* ---------------------------------------------------------------------
\* the expected labels as the one unit of a ground truth
AsOneUnit(expected) ==
    LET listed == CHOOSE s \in SeqsUpTo(Locations, Cardinality(expected)) :
                     ToSet(s) = expected /\ Len(s) = Cardinality(expected)
    IN  <<[anatomicalLocations |-> listed]>>

\* the predicted list as a response the client parsed
AsResponse(predicted) ==
    [success |-> TRUE, parsed_data |-> Present(predicted),
     anatomical_locations |-> Present(predicted), parsed_response |-> Absent]

EvaluatorOnMeasured ==
    evaluate_single_response(AsResponse(predicted_locations),
                             AsOneUnit(expected_locations))

C24_ScorersAgree ==
    pc = "measured" =>
       \A f \in ScoreFields : metrics[f] = EvaluatorOnMeasured[f]

\* what holds: precision and recall always agree, and all four agree when
\* the prediction is no longer than the expected list
ScorersAgreeWithoutOvergeneration ==
    pc = "measured" =>
       /\ metrics.precision = EvaluatorOnMeasured.precision
       /\ metrics.recall = EvaluatorOnMeasured.recall
       /\ Len(predicted_locations) <= Cardinality(expected_locations) =>
             \A f \in ScoreFields : metrics[f] = EvaluatorOnMeasured[f]

\* three predicted against two expected: the two penalties differ
C24_PenaltiesDiffer ==
    /\ pc = "measured"
    /\ Len(predicted_locations) = 3
    /\ Cardinality(expected_locations) = 2
    /\ metrics.overgeneration_penalty = 500
    /\ EvaluatorOnMeasured.overgeneration_penalty = 750

-----------------------------------------------------------------------------
(* Claims about the filter and the penalty together, checked under SpecRag *)

\* ---------------------------------------------------------------------
\* C25  For any retrieval result, the list returned by the evidence
\*      filter is an order-preserving sub-list of the retrieved units in
\*      which all units carry the same non-empty organ name; the 0.4
\*      organ-conflict penalty is applied to the trust score exactly when
\*      the filter discarded at least one organ-bearing unit.
\* ---------------------------------------------------------------------
\* sub is s with some elements left out, the others in their order
RECURSIVE IsSubList(_, _)
IsSubList(sub, s) ==
    IF sub = <<>> THEN TRUE
    ELSE IF s = <<>> THEN FALSE
    ELSE IF Head(sub) = Head(s) THEN IsSubList(Tail(sub), Tail(s))
    ELSE IsSubList(sub, Tail(s))

FilteredIsSubListOfOneOrgan ==
    /\ IsSubList(primary_refs, rag_results)
    /\ \A i \in DOMAIN primary_refs :
          /\ primary_refs[i].organ.organName # <<>>
          /\ primary_refs[i].organ.organName = primary_refs[1].organ.organName

\* the 0.4 was subtracted: the description carries the severe-conflict mark,
\* which a penalty of 0.4 or more sets
OrganPenaltyApplied == rag_quality.conflict = "severe"

\* the filter left out a unit that has an organ
DiscardedOrganBearing ==
    \E i \in DOMAIN rag_results :
       /\ HasOrgan(rag_results[i])
       /\ Cardinality({j \in DOMAIN primary_refs : primary_refs[j] = rag_results[i]})
            < Cardinality({j \in DOMAIN rag_results : rag_results[j] = rag_results[i]})

\* the filter left out a unit that names an organ
DiscardedNamedOrgan ==
    \E i \in DOMAIN rag_results :
       /\ HasOrgan(rag_results[i])
       /\ rag_results[i].organ.organName # <<>>
       /\ Cardinality({j \in DOMAIN primary_refs : primary_refs[j] = rag_results[i]})
            < Cardinality({j \in DOMAIN rag_results : rag_results[j] = rag_results[i]})

C25_PenaltyIffOrganUnitDiscarded ==
    pc = "assessed" =>
       /\ FilteredIsSubListOfOneOrgan
       /\ OrganPenaltyApplied <=> DiscardedOrganBearing

\* what holds: the penalty goes with the discarding of a unit that names
\* an organ
PenaltyIffNamedOrganDiscarded ==
    pc = "assessed" =>
       /\ FilteredIsSubListOfOneOrgan
       /\ OrganPenaltyApplied <=> DiscardedNamedOrgan

\* a unit whose organ has no name is left out, next to the units of one
\* organ, and no penalty is applied
C25_NamelessOrganDiscardedFree ==
    /\ pc = "assessed"
    /\ DistinctOrgans = 1
    /\ DiscardedOrganBearing
    /\ ~OrganPenaltyApplied
    /\ primary_refs # <<>>

-----------------------------------------------------------------------------
(* Claims about the API manager, checked under SpecMgr *)

\* ---------------------------------------------------------------------
\* C26  For every RAG-cache line with a non-empty query,
\*      process_symptom_smart returns a result whose api_responses holds
\*      one entry (success or failure) for each initialized API client, so
\*      run() records a result for that symptom.
\* ---------------------------------------------------------------------
SmartLineEnded == mgr_caller = "smart" /\ pc \in {"smart_returned", "smart_skipped"}

C26_SmartLineRecorded ==
    SmartLineEnded =>
       /\ pc = "smart_returned"
       /\ Len(all_results) = 1
       /\ Len(all_results[1]) = Len(mgr_clients)
       /\ \A i \in DOMAIN mgr_clients : all_results[1][i].client = mgr_clients[i]

\* with a client initialized, as run() requires, no line is ever recorded
SmartLineNeverRecordedWithClients ==
    SmartLineEnded /\ mgr_clients # <<>> =>
       /\ pc = "smart_skipped"
       /\ all_results = <<>>
       /\ Len(client_calls) = 1

\* the first of three clients answered and the line was skipped
C26_SkippedAfterFirstClient ==
    /\ pc = "smart_skipped"
    /\ Len(mgr_clients) = 3
    /\ Len(client_calls) = 1
    /\ client_calls[1].behaviour = "parsed"
    /\ all_results = <<>>

\* ---------------------------------------------------------------------
\* C27  Given a symptom record that has symptom_text and
\*      expected_results, process_symptom calls every initialized client
\*      once and returns exactly one entry per client; an exception raised
\*      by one client produces a success=False entry for that client and
\*      does not prevent the remaining clients from being called.
\* ---------------------------------------------------------------------
FullRecord == mgr_symptom.has_symptom_text /\ mgr_symptom.has_expected_results

ProcessSymptomEnded == pc \in {"mgr_returned", "mgr_raised"}

C27_OneEntryPerClient ==
    /\ FullRecord => pc # "mgr_raised"
    /\ FullRecord /\ pc = "mgr_returned" =>
          /\ Len(client_calls) = Len(mgr_clients)
          /\ Len(api_responses) = Len(mgr_clients)
          /\ \A i \in DOMAIN mgr_clients :
                /\ client_calls[i].client = mgr_clients[i]
                /\ api_responses[i].client = mgr_clients[i]
                /\ client_calls[i].behaviour = "raises" =>
                      ~api_responses[i].entry.success
    \* while the loop runs, the clients before client_pos were called, also
    \* after one of them raised
    /\ FullRecord /\ pc = "mgr_loop" =>
          /\ Len(client_calls) = client_pos - 1
          /\ Len(api_responses) = client_pos - 1

\* the first client raised, the other two were called and answered
C27_RaiseThenTwoAnswers ==
    /\ pc = "mgr_returned"
    /\ FullRecord
    /\ Len(mgr_clients) = 3
    /\ client_calls[1].behaviour = "raises"
    /\ ~api_responses[1].entry.success
    /\ api_responses[2].entry.success
    /\ api_responses[3].entry.success

-----------------------------------------------------------------------------
(* Claims about the evaluation summary, checked under SpecRun *)

\* ---------------------------------------------------------------------
\* C28  The evaluation summary has one entry per compared symptom: after
\*      any sequence of processed RAG-cache lines, total_symptoms equals
\*      the number of distinct queries that were compared against a
\*      baseline, and no symptom's comparison is overwritten by another
\*      symptom's.
\* ---------------------------------------------------------------------
ComparedQueries == {all_comparisons[i].key : i \in DOMAIN all_comparisons}

\* the summary's entry under the query's key is the query's own comparison
OwnEntry(i) ==
    \E j \in DOMAIN evaluation_summary.symptoms :
       /\ evaluation_summary.symptoms[j].key = SymptomKey(all_comparisons[i].key)
       /\ evaluation_summary.symptoms[j].value.symptom_text = all_comparisons[i].key
       /\ evaluation_summary.symptoms[j].value.comparisons = all_comparisons[i].value

C28_OneEntryPerComparedSymptom ==
    pc = "summarized" =>
       /\ evaluation_summary.total_symptoms = Cardinality(ComparedQueries)
       /\ \A i \in DOMAIN all_comparisons : OwnEntry(i)

\* what holds: one entry per distinct key, each holding the comparison of
\* the last compared query with that key
OneEntryPerKey ==
    pc = "summarized" =>
       /\ evaluation_summary.total_symptoms =
             Cardinality({SymptomKey(q) : q \in ComparedQueries})
       /\ \A i \in DOMAIN all_comparisons :
             (\A k \in (i + 1)..Len(all_comparisons) :
                 SymptomKey(all_comparisons[k].key) # SymptomKey(all_comparisons[i].key))
             => OwnEntry(i)
       /\ \A q \in ComparedQueries : q \in baseline_keys /\ q # NoQuery

\* two compared queries that agree on their first 50 characters share one
\* entry of the summary
C28_TwoQueriesOneEntry ==
    /\ pc = "summarized"
    /\ Cardinality(ComparedQueries) = 2
    /\ evaluation_summary.total_symptoms = 1

-----------------------------------------------------------------------------
(* Claims about the report evaluation, checked under SpecRep *)

\* ---------------------------------------------------------------------
\* C29  In evaluate_report_responses, after any sequence of symptoms and
\*      API responses, total_api_calls = successful_api_calls +
\*      failed_api_calls, the number of scores that enter the averages
\*      equals successful_api_calls, failed calls never change the
\*      averages, and with zero successful calls the averages stay 0.0
\*      without a division by zero.
\* ---------------------------------------------------------------------
\* the responses read so far, with their ground truth, in the order of the
\* two loops
RECURSIVE ReadSoFar(_, _)
ReadSoFar(s, a) ==
    IF s = 0 THEN <<>>
    ELSE LET symptom == rep_symptoms[s]
             upto == IF s = rep_idx THEN a - 1 ELSE Len(symptom.api_responses)
         IN  ReadSoFar(s - 1, 0) \o
             [i \in 1..upto |-> [response |-> symptom.api_responses[i],
                                 units |-> symptom.expected_results]]

CallsRead ==
    IF rep_idx > Len(rep_symptoms) THEN ReadSoFar(Len(rep_symptoms), 0)
    ELSE ReadSoFar(rep_idx, rep_api)

\* the overall scores of the successful calls alone, the failed ones left out
SuccessfulOnly == SelectSeq(CallsRead, LAMBDA c : c.response.success)

ScoresOfSuccessful ==
    [i \in DOMAIN SuccessfulOnly |->
        evaluate_single_response(SuccessfulOnly[i].response,
                                 SuccessfulOnly[i].units).overall_score]

C29_ReportCounters ==
    pc \in {"report_loop", "report_returned"} =>
       /\ rep_summary.total_api_calls =
             rep_summary.successful_api_calls + rep_summary.failed_api_calls
       /\ rep_summary.total_api_calls = Len(CallsRead)
       /\ Len(total_scores) = rep_summary.successful_api_calls
       /\ Len(total_precision) = rep_summary.successful_api_calls
       /\ Len(total_recall) = rep_summary.successful_api_calls
       /\ total_scores = ScoresOfSuccessful
       /\ pc = "report_returned" /\ rep_summary.successful_api_calls > 0 =>
             rep_summary.average_overall_score \in AverageChoices(ScoresOfSuccessful)
       /\ pc = "report_returned" /\ rep_summary.successful_api_calls = 0 =>
             /\ rep_summary.average_overall_score = 0
             /\ rep_summary.average_precision = 0
             /\ rep_summary.average_recall = 0

\* two failed calls around a successful one: the average is the one score
C29_FailedCallsLeaveAverage ==
    /\ pc = "report_returned"
    /\ rep_summary.failed_api_calls = 2
    /\ rep_summary.successful_api_calls = 1
    /\ rep_summary.average_overall_score = 1000

\* every call failed: the report is returned with averages 0.0
C29_AllFailed ==
    /\ pc = "report_returned"
    /\ rep_summary.failed_api_calls = 3
    /\ rep_summary.successful_api_calls = 0
    /\ rep_summary.average_overall_score = 0

-----------------------------------------------------------------------------
(* Claims about the concurrent runner, checked under SpecTasks *)

\* ---------------------------------------------------------------------
\* C30  In run_concurrent the summary report is generated only after both
\*      task threads have terminated, and under every interleaving of the
\*      two threads the shared results map then holds exactly one
\*      terminal status (success, failed or error) for each of the two
\*      tasks.
\* ---------------------------------------------------------------------
TerminalStatuses == {"success", "failed", "error"}

C30_SummaryAfterBothTerminated ==
    main_pc.at \in {"summary", "done"} =>
       /\ \A t \in TaskNames : task_pc[t] = "terminated"
       /\ \A t \in TaskNames : task_results[t] \in TerminalStatuses
       /\ summary_report.generated =>
             summary_report.success + summary_report.failed
                + summary_report.error = Cardinality(TaskNames)

\* the first task failed, the second stored success and then ended in
\* the except branch; the report counts both
C30_OneFailedOneError ==
    /\ main_pc.at = "done"
    /\ task_results["Task1_Config_Default"] = "failed"
    /\ task_results["Task2_Config_CN"] = "error"
    /\ summary_report.failed = 1
    /\ summary_report.error = 1

\* the first thread has terminated before the second was started
C30_FirstEndsBeforeSecondStarts ==
    /\ main_pc = [at |-> "start", i |-> 2]
    /\ task_pc["Task1_Config_Default"] = "terminated"
    /\ task_pc["Task2_Config_CN"] = "created"

====
